---------------------------- MODULE Spec2Model ----------------------------
(***************************************************************************)
(* Model of the workflow-graph mutation core of n8n-flow-gen-mcp           *)
(* (src/mcp-server/mcp_server.py) and of the remote store it edits         *)
(* through N8NAPIClient (src/mcp-server/n8n_api_client.py).                *)
(*                                                                         *)
(* Representation.                                                         *)
(*   - A Python dict whose iteration order the code relies on is an        *)
(*     ordered dict: a sequence of [key, val] entries in insertion order.  *)
(*     workflow.connections is an ordered dict source name -> type map,    *)
(*     a type map is an ordered dict connection type -> list of output     *)
(*     arrays, an output array is a sequence of edges [node, type, index]. *)
(*   - A node is [id, name, type, position, parameters]; id 0 and the      *)
(*     empty string are the falsy (missing or empty) values.               *)
(*   - uuid.uuid4() is a counter nextId of ids never handed out before.    *)
(*   - Every await of a remote call is one step of the model: the request  *)
(*     is pending in pc and the store answers in a later action, either    *)
(*     accepting it or failing it (a failed write may or may not have      *)
(*     been applied by the store before the failure was reported).         *)
(***************************************************************************)
EXTENDS Integers, Sequences, FiniteSets, TLC

\* ------------------------------------------------------------------ bounds
\* Number of tool invocations in one behaviour of Spec and SpecBatch.
MaxCalls == 1
\* Number of tool invocations in one behaviour of SpecConnections and SpecDelete.
MaxEdits == 2
\* Longest operation list handed to n8n_batch_operations.
MaxOps == 2
\* Longest node list handed to the validator alone
MaxNodes == 2

\* ------------------------------------------------------- ordered dicts
DictKeys(d) == {d[i].key : i \in DOMAIN d}
DictHas(d, k) == \E i \in DOMAIN d : d[i].key = k
DictIdx(d, k) == CHOOSE i \in DOMAIN d : d[i].key = k
DictGet(d, k) == d[DictIdx(d, k)].val
\* d[k] = v : an existing key keeps its place, a new key goes last
DictSet(d, k, v) ==
    IF DictHas(d, k) THEN [d EXCEPT ![DictIdx(d, k)].val = v]
    ELSE Append(d, [key |-> k, val |-> v])
\* del d[k]
DictDel(d, k) == SelectSeq(d, LAMBDA e : e.key # k)

\* ------------------------------------------------------- sequences
\* A list built by a comprehension over the indices of another one
ListOf(f) == SubSeq(f, 1, Len(f))
RECURSIVE SeqSum(_)
SeqSum(s) == IF s = <<>> THEN 0 ELSE Head(s) + SeqSum(Tail(s))
RECURSIVE SeqMax(_)
SeqMax(s) == IF Len(s) = 1 THEN s[1]
             ELSE LET m == SeqMax(Tail(s)) IN IF s[1] >= m THEN s[1] ELSE m
RECURSIVE Flatten(_)
Flatten(ss) == IF ss = <<>> THEN <<>> ELSE Head(ss) \o Flatten(Tail(ss))
\* Python's floor division a // b for b > 0
FloorDiv(a, b) == a \div b

\* ------------------------------------------------------- graph model
Edge(target, ctype, idx) == [node |-> target, type |-> ctype, index |-> idx]
Node(id, name, type, pos) ==
    [id |-> id, name |-> name, type |-> type, position |-> pos,
     parameters |-> <<>>]
Workflow(nodes, connections) == [nodes |-> nodes, connections |-> connections]

NodeNames(workflow) == {workflow.nodes[i].name : i \in DOMAIN workflow.nodes}

\* All edges of a connection map in iteration order, as
\* [source, target, type, output, index]
RECURSIVE EdgesOfArrays(_, _, _, _)
EdgesOfArrays(src, ctype, arrays, o) ==
    IF arrays = <<>> THEN <<>>
    ELSE ListOf([k \in DOMAIN Head(arrays) |->
            [source |-> src, target |-> Head(arrays)[k].node, type |-> ctype,
             output |-> o, index |-> Head(arrays)[k].index]])
         \o EdgesOfArrays(src, ctype, Tail(arrays), o + 1)
RECURSIVE EdgesOfTypes(_, _)
EdgesOfTypes(src, tmap) ==
    IF tmap = <<>> THEN <<>>
    ELSE EdgesOfArrays(src, Head(tmap).key, Head(tmap).val, 0)
         \o EdgesOfTypes(src, Tail(tmap))
RECURSIVE EdgeList(_)
EdgeList(connections) ==
    IF connections = <<>> THEN <<>>
    ELSE EdgesOfTypes(Head(connections).key, Head(connections).val)
         \o EdgeList(Tail(connections))

\* ------------------------------------------------------- pure helpers
\* validate_workflow_structure: the error list, in the order the code appends
RECURSIVE NodeFieldErrors(_, _)
NodeFieldErrors(nodes, i) ==
    IF i > Len(nodes) THEN <<>>
    ELSE (IF nodes[i].id = 0 THEN <<[err |-> "missing id", node |-> i - 1]>> ELSE <<>>)
      \o (IF nodes[i].type = "" THEN <<[err |-> "missing type", node |-> i - 1]>> ELSE <<>>)
      \o (IF nodes[i].name = "" THEN <<[err |-> "missing name", node |-> i - 1]>> ELSE <<>>)
      \o NodeFieldErrors(nodes, i + 1)

\* The validator as it would be if it returned at its first error
validate_first_error(workflow) ==
    LET nodes == IF "nodes" \in DOMAIN workflow THEN workflow.nodes ELSE <<>>
        node_ids == ListOf([i \in DOMAIN nodes |-> nodes[i].id])
        errors ==
            (IF "nodes" \notin DOMAIN workflow
             THEN <<[err |-> "missing nodes", node |-> -1]>> ELSE <<>>)
            \o (IF "connections" \notin DOMAIN workflow
                THEN <<[err |-> "missing connections", node |-> -1]>> ELSE <<>>)
            \o (IF Len(node_ids) # Cardinality({node_ids[i] : i \in DOMAIN node_ids})
                THEN <<[err |-> "duplicate node ids", node |-> -1]>> ELSE <<>>)
            \o NodeFieldErrors(nodes, 1)
    IN [valid |-> (Len(errors) = 0), errors |-> SubSeq(errors, 1, 1)]

validate_workflow_structure(workflow) ==
    LET has_nodes == "nodes" \in DOMAIN workflow
        nodes == IF has_nodes THEN workflow.nodes ELSE <<>>
        required ==
            (IF ~has_nodes THEN <<[err |-> "missing nodes", node |-> -1]>> ELSE <<>>)
            \o (IF "connections" \notin DOMAIN workflow
                THEN <<[err |-> "missing connections", node |-> -1]>> ELSE <<>>)
        node_ids == ListOf([i \in DOMAIN nodes |-> nodes[i].id])
        dup == IF Len(node_ids) # Cardinality({node_ids[i] : i \in DOMAIN node_ids})
               THEN <<[err |-> "duplicate node ids", node |-> -1]>> ELSE <<>>
        errors == required \o dup \o NodeFieldErrors(nodes, 1)
    IN [valid |-> (Len(errors) = 0), errors |-> errors]

\* find_node_by_name: the index of the first node of that name, 0 for None
find_node_by_name(workflow, node_name) ==
    IF \E i \in DOMAIN workflow.nodes : workflow.nodes[i].name = node_name
    THEN CHOOSE i \in DOMAIN workflow.nodes :
            /\ workflow.nodes[i].name = node_name
            /\ \A j \in 1..(i - 1) : workflow.nodes[j].name # node_name
    ELSE 0

\* find_connection: TRUE iff a connection is returned (the callers only test
\* the result for truth). Looks at connections[source]["main"][0] only.
find_connection(connections, source_name, target_name) ==
    LET source_connections ==
            IF DictHas(connections, source_name)
               /\ DictHas(DictGet(connections, source_name), "main")
            THEN DictGet(DictGet(connections, source_name), "main")
            ELSE << <<>> >>
    IN /\ Len(source_connections) > 0
       /\ \E k \in DOMAIN source_connections[1] :
              source_connections[1][k].node = target_name


\* ------------------------------------------------------- outcomes
\* What the code of a tool does between two awaits is an operator from the
\* fetched workflow to an outcome:
\*   "push"   : the validated workflow wf is handed to client.update_workflow
\*   "return" : an early `return {"error": ..., "status": "failed"}`
\*   "raise"  : an exception reaches the tool's outer `except Exception`
\*   "create" : n8n_create_subflow awaits client.create_workflow(sub) and
\*              then client.update_workflow with wf
\*   "compensate" : the batch awaits update_workflow(original_workflow) inside
\*              its try block and then returns the failure (with the records
\*              as completed_operations when with_completed)
\* ids is the number of uuid4() values drawn, checked tells whether
\* validate_workflow_structure(wf) was evaluated and returned valid.
Err(kind, op, optype, cause) ==
    [kind |-> kind, op |-> op, optype |-> optype, cause |-> cause]
NoErr == Err("None", -1, "", "")
Outcome(out, wf, error, records, ids, checked) ==
    [out |-> out, wf |-> wf, error |-> error, records |-> records,
     with_completed |-> FALSE, ids |-> ids, checked |-> checked,
     sub |-> [nodes |-> <<>>, connections |-> <<>>]]
PushOut(wf, ids, checked) == Outcome("push", wf, NoErr, <<>>, ids, checked)
\* "raise Exception(...)", or a fault of the interpreter, inside the try block
RaiseOut(wf, kind) == Outcome("raise", wf, Err(kind, -1, "", ""), <<>>, 0, FALSE)
\* A failed check that raised into the except handler instead of returning
ReturnOutRaised(wf, kind) == RaiseOut(wf, kind)
\* "return {"error": ..., "status": "failed"}" inside the try block
ReturnOut(wf, kind) == Outcome("return", wf, Err(kind, -1, "", ""), <<>>, 0, FALSE)

\* "validation = validate_workflow_structure(workflow); if not valid: return
\*  failed; update_payload = {...}; await client.update_workflow(...)"
ValidateThenPush(wf, ids) ==
    IF ~validate_workflow_structure(wf).valid
    THEN ReturnOut(wf, "ValidationFailed")
    ELSE PushOut(wf, ids, TRUE)

\* node.get("position", default): a node without position holds <<>>
NodePosition(node, default) ==
    IF node.position = <<>> THEN default ELSE node.position

\* ------------------------------------------------------- connections
\* while len(arrays) <= index: arrays.append([])
RECURSIVE PadArrays(_, _)
PadArrays(arrays, index) ==
    IF Len(arrays) > index THEN arrays
    ELSE PadArrays(Append(arrays, <<>>), index)

\* [[conn for conn in arr if conn["node"] != name] for arr in arrays]
StripTarget(arrays, name) ==
    ListOf([i \in DOMAIN arrays |-> SelectSeq(arrays[i], LAMBDA c : c.node # name)])

\* n8n_add_connection, from the fetched workflow to the awaited replace
n8n_add_connection(workflow, source_node_name, target_node_name, connection_type, source_output_index, target_input_index) ==
    IF find_node_by_name(workflow, source_node_name) = 0
    THEN ReturnOut(workflow, "NotFound")
    ELSE IF find_node_by_name(workflow, target_node_name) = 0
    THEN ReturnOut(workflow, "NotFound")
    ELSE IF find_connection(workflow.connections, source_node_name, target_node_name)
    THEN ReturnOut(workflow, "Duplicate")
    ELSE
      LET connections == workflow.connections
          c1 == IF ~DictHas(connections, source_node_name)
                THEN DictSet(connections, source_node_name,
                             <<[key |-> connection_type, val |-> << <<>> >>]>>)
                ELSE IF ~DictHas(DictGet(connections, source_node_name), connection_type)
                THEN DictSet(connections, source_node_name,
                             DictSet(DictGet(connections, source_node_name),
                                     connection_type, << <<>> >>))
                ELSE connections
          tmap == DictGet(c1, source_node_name)
          padded == PadArrays(DictGet(tmap, connection_type), source_output_index)
          new_connection == Edge(target_node_name, connection_type, target_input_index)
          arrays == [padded EXCEPT ![source_output_index + 1] =
                                      Append(@, new_connection)]
          c2 == DictSet(c1, source_node_name, DictSet(tmap, connection_type, arrays))
      IN ValidateThenPush([workflow EXCEPT !.connections = c2], 0)

\* n8n_remove_connection
n8n_remove_connection(workflow, source_node_name, target_node_name, connection_type) ==
    IF find_node_by_name(workflow, source_node_name) = 0
    THEN ReturnOut(workflow, "NotFound")
    ELSE IF find_node_by_name(workflow, target_node_name) = 0
    THEN ReturnOut(workflow, "NotFound")
    ELSE IF ~find_connection(workflow.connections, source_node_name, target_node_name)
    THEN ReturnOut(workflow, "NotFound")
    ELSE
      LET connections == workflow.connections
          c1 == IF DictHas(connections, source_node_name)
                   /\ DictHas(DictGet(connections, source_node_name), connection_type)
                THEN LET tmap == DictGet(connections, source_node_name)
                         stripped == StripTarget(DictGet(tmap, connection_type),
                                                 target_node_name)
                         cleaned == SelectSeq(stripped, LAMBDA arr : arr # <<>>)
                         tmap1 == IF cleaned = <<>> THEN DictDel(tmap, connection_type)
                                  ELSE DictSet(tmap, connection_type, cleaned)
                     IN IF tmap1 = <<>> THEN DictDel(connections, source_node_name)
                        ELSE DictSet(connections, source_node_name, tmap1)
                ELSE connections
      IN ValidateThenPush([workflow EXCEPT !.connections = c1], 0)

\* for connection in output_array: if connection["node"] == target:
\*     connection["node"] = new_target; break
RetargetFirst(output_array, target_name, new_target_name) ==
    IF \E k \in DOMAIN output_array : output_array[k].node = target_name
    THEN LET k == CHOOSE k \in DOMAIN output_array :
                     /\ output_array[k].node = target_name
                     /\ \A j \in 1..(k - 1) : output_array[j].node # target_name
         IN [output_array EXCEPT ![k].node = new_target_name]
    ELSE output_array

\* n8n_update_connection
n8n_update_connection(workflow, source_node_name, target_node_name, new_target_node_name, connection_type) ==
    IF find_node_by_name(workflow, source_node_name) = 0
    THEN ReturnOut(workflow, "NotFound")
    ELSE IF find_node_by_name(workflow, target_node_name) = 0
    THEN ReturnOut(workflow, "NotFound")
    ELSE IF find_node_by_name(workflow, new_target_node_name) = 0
    THEN ReturnOut(workflow, "NotFound")
    ELSE IF ~find_connection(workflow.connections, source_node_name, target_node_name)
    THEN ReturnOut(workflow, "NotFound")
    ELSE
      LET connections == workflow.connections
          c1 == IF DictHas(connections, source_node_name)
                   /\ DictHas(DictGet(connections, source_node_name), connection_type)
                THEN LET tmap == DictGet(connections, source_node_name)
                         arrays == DictGet(tmap, connection_type)
                         updated == ListOf([i \in DOMAIN arrays |->
                                       RetargetFirst(arrays[i], target_node_name,
                                                     new_target_node_name)])
                     IN DictSet(connections, source_node_name,
                                DictSet(tmap, connection_type, updated))
                ELSE connections
      IN ValidateThenPush([workflow EXCEPT !.connections = c1], 0)

\* ------------------------------------------------------- node editors
\* A placement that ignores the existing nodes
AutoPositionFixed(workflow) == <<200, 300>>

\* Auto-position of n8n_add_node and of the batch's add_node:
\* [max(x) + 300, sum(y) // len] over the existing nodes, [200, 300] if none
AutoPosition(workflow) ==
    IF workflow.nodes = <<>> THEN <<200, 300>>
    ELSE LET positions == ListOf([i \in DOMAIN workflow.nodes |->
                             NodePosition(workflow.nodes[i], <<200, 300>>)])
             xs == ListOf([i \in DOMAIN positions |-> positions[i][1]])
             ys == ListOf([i \in DOMAIN positions |-> positions[i][2]])
         IN <<SeqMax(xs) + 300, FloorDiv(SeqSum(ys), Len(positions))>>

\* n8n_add_node after the position argument was converted: position is <<>>
\* for None, connect_to_node is "" for None
n8n_add_node(workflow, node_config, position, connect_to_node, new_node_id) ==
    LET new_node_name == node_config.name
        pos == IF position = <<>> THEN AutoPosition(workflow) ELSE position
        new_node == Node(new_node_id, new_node_name, node_config.type, pos)
        w1 == [workflow EXCEPT !.nodes = Append(@, new_node)]
        connections == w1.connections
    IN IF connect_to_node # "" /\ find_node_by_name(w1, connect_to_node) # 0
       THEN LET c1 == IF ~DictHas(connections, new_node_name)
                      THEN DictSet(connections, new_node_name,
                                   <<[key |-> "main", val |-> << <<>> >>]>>)
                      ELSE connections
                tmap == DictGet(c1, new_node_name)
            IN IF ~DictHas(tmap, "main") THEN RaiseOut(w1, "KeyError")
               ELSE IF DictGet(tmap, "main") = <<>> THEN RaiseOut(w1, "IndexError")
               ELSE LET arrays == [DictGet(tmap, "main") EXCEPT ![1] =
                                     Append(@, Edge(connect_to_node, "main", 0))]
                        c2 == DictSet(c1, new_node_name, DictSet(tmap, "main", arrays))
                    IN ValidateThenPush([w1 EXCEPT !.connections = c2], 1)
       ELSE ValidateThenPush(w1, 1)

\* incoming_connections of n8n_delete_node: one entry per "main" edge into
\* node_name found under a source other than node_name, in iteration order
RECURSIVE IncomingSources(_, _)
IncomingSources(connections, node_name) ==
    IF connections = <<>> THEN <<>>
    ELSE LET e == Head(connections)
             here == IF e.key # node_name /\ DictHas(e.val, "main")
                     THEN LET hits == SelectSeq(Flatten(DictGet(e.val, "main")),
                                                LAMBDA c : c.node = node_name)
                          IN ListOf([k \in DOMAIN hits |-> e.key])
                     ELSE <<>>
         IN here \o IncomingSources(Tail(connections), node_name)

\* outgoing_connections of n8n_delete_node: the targets in
\* connections[node_name]["main"][0]
OutgoingTargets(connections, node_name) ==
    IF DictHas(connections, node_name)
    THEN LET tmap == DictGet(connections, node_name)
             node_connections == IF DictHas(tmap, "main") THEN DictGet(tmap, "main")
                                 ELSE << <<>> >>
         IN IF Len(node_connections) > 0
            THEN ListOf([k \in DOMAIN node_connections[1] |-> node_connections[1][k].node])
            ELSE <<>>
    ELSE <<>>

\* "Clean up connections" of delete: drop the node's own entry, then strip the
\* edges into it from the "main" arrays of every remaining source
CleanUpConnections(connections, node_name) ==
    LET c1 == DictDel(connections, node_name)
    IN ListOf([i \in DOMAIN c1 |->
          IF DictHas(c1[i].val, "main")
          THEN [c1[i] EXCEPT !.val =
                  DictSet(@, "main", StripTarget(DictGet(@, "main"), node_name))]
          ELSE c1[i]])

\* n8n_delete_node
n8n_delete_node(workflow, node_name, reconnect_connections) ==
    IF find_node_by_name(workflow, node_name) = 0
    THEN ReturnOut(workflow, "NotFound")
    ELSE
      LET incoming_connections == IncomingSources(workflow.connections, node_name)
          outgoing_connections == OutgoingTargets(workflow.connections, node_name)
          nodes == SelectSeq(workflow.nodes, LAMBDA n : n.name # node_name)
          c1 == CleanUpConnections(workflow.connections, node_name)
          w1 == Workflow(nodes, c1)
      IN IF reconnect_connections /\ incoming_connections # <<>>
            /\ outgoing_connections # <<>>
         THEN LET source_node == incoming_connections[1]
                  target_node == outgoing_connections[1]
                  c2 == IF ~DictHas(c1, source_node)
                        THEN DictSet(c1, source_node,
                                     <<[key |-> "main", val |-> << <<>> >>]>>)
                        ELSE c1
                  tmap == DictGet(c2, source_node)
              IN IF ~DictHas(tmap, "main") THEN RaiseOut(w1, "KeyError")
                 ELSE IF DictGet(tmap, "main") = <<>> THEN RaiseOut(w1, "IndexError")
                 ELSE LET arrays == [DictGet(tmap, "main") EXCEPT ![1] =
                                       Append(@, Edge(target_node, "main", 0))]
                          c3 == DictSet(c2, source_node, DictSet(tmap, "main", arrays))
                      IN ValidateThenPush(Workflow(nodes, c3), 0)
         ELSE ValidateThenPush(w1, 0)

\* n8n_move_node after the new_position argument was converted
n8n_move_node(workflow, node_name, new_position) ==
    LET i == find_node_by_name(workflow, node_name)
    IN IF i = 0 THEN ReturnOut(workflow, "NotFound")
       ELSE ValidateThenPush([workflow EXCEPT !.nodes[i].position = new_position], 0)

\* calculate_midpoint_position
calculate_midpoint_position(workflow, source_name, target_name) ==
    LET s == find_node_by_name(workflow, source_name)
        t == find_node_by_name(workflow, target_name)
    IN IF s = 0 \/ t = 0 THEN <<300, 200>>
       ELSE LET source_pos == NodePosition(workflow.nodes[s], <<0, 0>>)
                target_pos == NodePosition(workflow.nodes[t], <<400, 0>>)
            IN <<FloorDiv(source_pos[1] + target_pos[1], 2),
                 FloorDiv(source_pos[2] + target_pos[2], 2)>>

\* update_connections: replace source -> target by source -> new -> target
update_connections(connections, source_name, target_name, new_node_name) ==
    LET \* Step 1: filter the target out of connections[source]["main"][0]
        c1 == IF DictHas(connections, source_name)
                 /\ DictHas(DictGet(connections, source_name), "main")
                 /\ Len(DictGet(DictGet(connections, source_name), "main")) > 0
              THEN LET tmap == DictGet(connections, source_name)
                       main == DictGet(tmap, "main")
                   IN DictSet(connections, source_name,
                        DictSet(tmap, "main",
                          [main EXCEPT ![1] =
                             SelectSeq(@, LAMBDA c : c.node # target_name)]))
              ELSE connections
        \* Step 2: make sure connections[source]["main"][0] exists, append
        c2 == IF ~DictHas(c1, source_name)
              THEN DictSet(c1, source_name, <<[key |-> "main", val |-> << <<>> >>]>>)
              ELSE IF ~DictHas(DictGet(c1, source_name), "main")
                      \/ DictGet(DictGet(c1, source_name), "main") = <<>>
              THEN DictSet(c1, source_name,
                           DictSet(DictGet(c1, source_name), "main", << <<>> >>))
              ELSE c1
        tmap2 == DictGet(c2, source_name)
        c3 == DictSet(c2, source_name,
                DictSet(tmap2, "main",
                  [DictGet(tmap2, "main") EXCEPT ![1] =
                     Append(@, Edge(new_node_name, "main", 0))]))
        \* Step 3: connections[new] = {"main": [[target]]}
    IN DictSet(c3, new_node_name,
               <<[key |-> "main", val |-> << <<Edge(target_name, "main", 0)>> >>]>>)

\* n8n_insert_node_between
n8n_insert_node_between(workflow, source_node_name, target_node_name, new_node_config, new_node_id) ==
    IF find_node_by_name(workflow, source_node_name) = 0
    THEN ReturnOut(workflow, "NotFound")
    ELSE IF find_node_by_name(workflow, target_node_name) = 0
    THEN ReturnOut(workflow, "NotFound")
    ELSE IF ~find_connection(workflow.connections, source_node_name, target_node_name)
    THEN ReturnOut(workflow, "NoSuchConnection")
    ELSE
      LET new_position == calculate_midpoint_position(workflow, source_node_name,
                                                      target_node_name)
          new_node == Node(new_node_id, new_node_config.name, new_node_config.type,
                           new_position)
      IN ValidateThenPush(
           Workflow(Append(workflow.nodes, new_node),
                    update_connections(workflow.connections, source_node_name,
                                       target_node_name, new_node_config.name)),
           1)

\* Parameter values: a leaf or a nested mapping
PLeaf(v) == [t |-> "leaf", v |-> v, d |-> <<>>]
PDict(d) == [t |-> "dict", v |-> 0, d |-> d]

\* One parameter update. path is key.split("."); a path of one component is a
\* key without a dot. Gives [ok, d]: ok is FALSE when the walk meets a value
\* that is no mapping (a TypeError in the code).
RECURSIVE SetPath(_, _, _)
SetPath(d, path, value) ==
    IF Len(path) = 1 THEN [ok |-> TRUE, d |-> DictSet(d, path[1], value)]
    ELSE LET k == path[1]
             child == IF DictHas(d, k) THEN DictGet(d, k) ELSE PDict(<<>>)
         IN IF child.t # "dict" THEN [ok |-> FALSE, d |-> d]
            ELSE LET r == SetPath(child.d, Tail(path), value)
                 IN [ok |-> r.ok, d |-> DictSet(d, k, PDict(r.d))]

RECURSIVE ApplyUpdates(_, _)
ApplyUpdates(parameters, updates) ==
    IF updates = <<>> THEN [ok |-> TRUE, d |-> parameters]
    ELSE LET r == SetPath(parameters, Head(updates).path, Head(updates).value)
         IN IF ~r.ok THEN r ELSE ApplyUpdates(r.d, Tail(updates))

\* n8n_update_node_parameters
n8n_update_node_parameters(workflow, node_name, parameter_updates) ==
    LET i == find_node_by_name(workflow, node_name)
    IN IF i = 0 THEN ReturnOut(workflow, "NotFound")
       ELSE LET r == ApplyUpdates(workflow.nodes[i].parameters, parameter_updates)
                w1 == [workflow EXCEPT !.nodes[i].parameters = r.d]
            IN IF ~r.ok THEN RaiseOut(w1, "TypeError")
               ELSE ValidateThenPush(w1, 0)

\* ------------------------------------------------------- arguments
\* A numeric-pair argument as the caller passes it: absent, a native list, or
\* a text to be parsed by json.loads
PosNone == [kind |-> "none", val |-> <<>>, text |-> ""]
PosList(v) == [kind |-> "list", val |-> v, text |-> ""]
PosStr(t) == [kind |-> "str", val |-> <<>>, text |-> t]

\* json.loads on the texts the model passes: [ok, val], val the parsed list
json_loads(text) ==
    CASE text = "[500, 100]" -> [ok |-> TRUE, val |-> <<500, 100>>]
      [] text = "[500]" -> [ok |-> TRUE, val |-> <<500>>]
      [] text = "[500, 100, 7]" -> [ok |-> TRUE, val |-> <<500, 100, 7>>]
      [] text = "[0, 0]" -> [ok |-> TRUE, val |-> <<0, 0>>]
      [] text = "[0, 500]" -> [ok |-> TRUE, val |-> <<0, 500>>]
      [] OTHER -> [ok |-> FALSE, val |-> <<>>]

\* The position conversion of n8n_add_node and of the batch's add_node:
\* [ok, val], val = <<>> for None
convert_position(position) ==
    IF position.kind = "none" THEN [ok |-> TRUE, val |-> <<>>]
    ELSE LET parsed == IF position.kind = "str" THEN json_loads(position.text)
                       ELSE [ok |-> TRUE, val |-> position.val]
         IN IF ~parsed.ok THEN [ok |-> FALSE, val |-> <<>>]
            ELSE IF Len(parsed.val) # 2 THEN [ok |-> FALSE, val |-> <<>>]
            ELSE [ok |-> TRUE, val |-> parsed.val]

\* The new_position conversion of n8n_move_node and of the batch's move_node
\* (likewise start_position and position_offset): only a text is checked
convert_new_position(new_position) ==
    IF new_position.kind = "str"
    THEN LET parsed == json_loads(new_position.text)
         IN IF ~parsed.ok \/ Len(parsed.val) # 2 THEN [ok |-> FALSE, val |-> <<>>]
            ELSE [ok |-> TRUE, val |-> parsed.val]
    ELSE [ok |-> TRUE, val |-> new_position.val]

\* ------------------------------------------------------- batch
OpAddNode(node_config, position) ==
    [type |-> "add_node", node_config |-> node_config, position |-> position]
OpDeleteNode(node_name) == [type |-> "delete_node", node_name |-> node_name]
OpAddConnection(source_node, target_node, connection_type) ==
    [type |-> "add_connection", source_node |-> source_node,
     target_node |-> target_node, connection_type |-> connection_type]
OpMoveNode(node_name, position) ==
    [type |-> "move_node", node_name |-> node_name, position |-> position]
OpUnknown == [type |-> "validate"]

OpRecord(i, type) == [operation |-> i, type |-> type, status |-> "success"]

\* The value the loop variable i holds after the batch's delete_node ran
\* "for i, connection_list in enumerate(connections["main"])" over every source
RECURSIVE ClobberedIndex(_, _)
ClobberedIndex(connections, i) ==
    IF connections = <<>> THEN i
    ELSE LET e == Head(connections)
             j == IF DictHas(e.val, "main") /\ Len(DictGet(e.val, "main")) > 0
                  THEN Len(DictGet(e.val, "main")) - 1 ELSE i
         IN ClobberedIndex(Tail(connections), j)

\* One operation of the batch on the in-memory workflow:
\* [ok, wf, cause, record]; new_node_id is the uuid drawn by add_node
BatchOperation(workflow, operation, i, new_node_id) ==
    LET fail(cause) == [ok |-> FALSE, wf |-> workflow, cause |-> cause,
                        record |-> OpRecord(i, operation.type)]
        done(wf, rec) == [ok |-> TRUE, wf |-> wf, cause |-> "", record |-> rec]
    IN CASE operation.type = "add_node" ->
              LET p == convert_position(operation.position)
              IN IF ~p.ok THEN fail("InvalidArgument")
                 ELSE LET pos == IF p.val = <<>> THEN AutoPosition(workflow) ELSE p.val
                          new_node == Node(new_node_id, operation.node_config.name,
                                           operation.node_config.type, pos)
                      IN done([workflow EXCEPT !.nodes = Append(@, new_node)],
                              OpRecord(i, "add_node"))
         [] operation.type = "delete_node" ->
              IF find_node_by_name(workflow, operation.node_name) = 0
              THEN fail("NotFound")
              ELSE LET c1 == CleanUpConnections(workflow.connections,
                                                operation.node_name)
                       nodes == SelectSeq(workflow.nodes,
                                          LAMBDA n : n.name # operation.node_name)
                   IN done(Workflow(nodes, c1),
                           OpRecord(ClobberedIndex(c1, i), "delete_node"))
         [] operation.type = "add_connection" ->
              LET connections == workflow.connections
                  source_node == operation.source_node
                  connection_type == operation.connection_type
                  c1 == IF ~DictHas(connections, source_node)
                        THEN DictSet(connections, source_node,
                                     <<[key |-> connection_type, val |-> << <<>> >>]>>)
                        ELSE IF ~DictHas(DictGet(connections, source_node),
                                         connection_type)
                        THEN DictSet(connections, source_node,
                                     DictSet(DictGet(connections, source_node),
                                             connection_type, << <<>> >>))
                        ELSE connections
                  tmap == DictGet(c1, source_node)
                  arrays == DictGet(tmap, connection_type)
              IN IF arrays = <<>> THEN fail("IndexError")
                 ELSE done([workflow EXCEPT !.connections =
                              DictSet(c1, source_node,
                                DictSet(tmap, connection_type,
                                  [arrays EXCEPT ![1] =
                                     Append(@, Edge(operation.target_node,
                                                    connection_type, 0))]))],
                           OpRecord(i, "add_connection"))
         [] operation.type = "move_node" ->
              LET p == convert_new_position(operation.position)
                  k == find_node_by_name(workflow, operation.node_name)
              IN IF ~p.ok THEN fail("InvalidArgument")
                 ELSE IF k = 0 THEN fail("NotFound")
                 ELSE done([workflow EXCEPT !.nodes[k].position = p.val],
                           OpRecord(i, "move_node"))
         [] OTHER -> fail("UnknownOperation")

\* Steps 2 and 3 of n8n_batch_operations: the operations in order from index i
\* (0-based) with the records so far, then the validation of the final state
RECURSIVE BatchRun(_, _, _, _, _)
BatchRun(workflow, operations, i, results, next_id) ==
    IF i >= Len(operations)
    THEN IF ~validate_workflow_structure(workflow).valid
         THEN Outcome("compensate", workflow, Err("ValidationFailed", -1, "", ""),
                      <<>>, next_id, FALSE)
         ELSE Outcome("push", workflow, NoErr, results, next_id, TRUE)
    ELSE LET operation == operations[i + 1]
             ids == IF operation.type = "add_node" THEN 1 ELSE 0
             r == BatchOperation(workflow, operation, i, next_id)
         IN IF ~r.ok
            THEN [Outcome("compensate", r.wf,
                          Err("OperationFailed", i, operation.type, r.cause),
                          results, next_id + ids, FALSE)
                    EXCEPT !.with_completed = TRUE]
            ELSE BatchRun(r.wf, operations, i + 1, Append(results, r.record),
                          next_id + ids)

\* n8n_batch_operations from the fetched workflow to its first awaited write;
\* ids of the outcome counts the uuids drawn
n8n_batch_operations(workflow, operations, next_id) ==
    LET o == BatchRun(workflow, operations, 0, <<>>, next_id)
    IN [o EXCEPT !.ids = o.ids - next_id]

\* ------------------------------------------------------- layout
\* int(n ** 0.5)
RECURSIVE ISqrtFrom(_, _)
ISqrtFrom(n, r) == IF (r + 1) * (r + 1) > n THEN r ELSE ISqrtFrom(n, r + 1)
ISqrt(n) == ISqrtFrom(n, 0)

\* The keys of a dict filled by "for node in nodes: d[node.name] = ...":
\* the distinct names in order of first occurrence
RECURSIVE DistinctNames(_, _)
DistinctNames(nodes, seen) ==
    IF nodes = <<>> THEN <<>>
    ELSE IF Head(nodes).name \in seen THEN DistinctNames(Tail(nodes), seen)
    ELSE <<Head(nodes).name>> \o DistinctNames(Tail(nodes), seen \cup {Head(nodes).name})

\* "Build adjacency list": [ok, adjacency, incoming_count]; ok is FALSE when
\* an edge names a source or a target that is no node (a KeyError)
RECURSIVE BuildAdjacency(_, _, _)
BuildAdjacency(edges, adjacency, incoming_count) ==
    IF edges = <<>>
    THEN [ok |-> TRUE, adjacency |-> adjacency, incoming_count |-> incoming_count]
    ELSE LET e == Head(edges)
         IN IF e.target = "" THEN BuildAdjacency(Tail(edges), adjacency, incoming_count)
            ELSE IF e.source \notin DOMAIN adjacency \/ e.target \notin DOMAIN incoming_count
            THEN [ok |-> FALSE, adjacency |-> adjacency, incoming_count |-> incoming_count]
            ELSE BuildAdjacency(Tail(edges),
                                [adjacency EXCEPT ![e.source] = Append(@, e.target)],
                                [incoming_count EXCEPT ![e.target] = @ + 1])

\* The neighbor loop as it would be if it put a freed neighbor at the front of
\* the queue
RECURSIVE VisitNeighborsFront(_, _, _)
VisitNeighborsFront(neighbors, incoming_count, queue) ==
    IF neighbors = <<>> THEN [incoming_count |-> incoming_count, queue |-> queue]
    ELSE LET n == Head(neighbors)
             c == [incoming_count EXCEPT ![n] = @ - 1]
         IN VisitNeighborsFront(Tail(neighbors), c,
                                IF c[n] = 0 THEN <<n>> \o queue ELSE queue)

\* The neighbor loop as it would be if it queued a neighbor at each visit that
\* leaves its count at zero or above, not only at the visit that frees it
RECURSIVE VisitNeighborsEarly(_, _, _)
VisitNeighborsEarly(neighbors, incoming_count, queue) ==
    IF neighbors = <<>> THEN [incoming_count |-> incoming_count, queue |-> queue]
    ELSE LET n == Head(neighbors)
             c == [incoming_count EXCEPT ![n] = @ - 1]
         IN VisitNeighborsEarly(Tail(neighbors), c,
                                IF c[n] >= 0 THEN Append(queue, n) ELSE queue)

\* "for neighbor in adjacency[node_name]": [incoming_count, queue]
RECURSIVE VisitNeighbors(_, _, _)
VisitNeighbors(neighbors, incoming_count, queue) ==
    IF neighbors = <<>> THEN [incoming_count |-> incoming_count, queue |-> queue]
    ELSE LET n == Head(neighbors)
             c == [incoming_count EXCEPT ![n] = @ - 1]
         IN VisitNeighbors(Tail(neighbors), c,
                           IF c[n] = 0 THEN Append(queue, n) ELSE queue)

\* "for node_name in current_level"
RECURSIVE VisitLevel(_, _, _, _)
VisitLevel(current_level, adjacency, incoming_count, queue) ==
    IF current_level = <<>> THEN [incoming_count |-> incoming_count, queue |-> queue]
    ELSE LET r == VisitNeighbors(adjacency[Head(current_level)], incoming_count, queue)
         IN VisitLevel(Tail(current_level), adjacency, r.incoming_count, r.queue)

\* The loop as it would be if, the queue being empty, it placed one of the
\* nodes that still wait for a predecessor
RECURSIVE FlowLevelsForced(_, _, _, _)
FlowLevelsForced(queue, adjacency, incoming_count, levels) ==
    IF queue = <<>>
    THEN IF \E n \in DOMAIN incoming_count : incoming_count[n] > 0
         THEN Append(levels, <<CHOOSE n \in DOMAIN incoming_count : incoming_count[n] > 0>>)
         ELSE levels
    ELSE LET r == VisitLevel(queue, adjacency, incoming_count, <<>>)
         IN FlowLevelsForced(r.queue, adjacency, r.incoming_count, Append(levels, queue))

\* "while queue": the levels, levels[l + 1] holding the names of level l
RECURSIVE FlowLevels(_, _, _, _)
FlowLevels(queue, adjacency, incoming_count, levels) ==
    IF queue = <<>> THEN levels
    ELSE LET r == VisitLevel(queue, adjacency, incoming_count, <<>>)
         IN FlowLevels(r.queue, adjacency, r.incoming_count, Append(levels, queue))

\* int(center + radius * cos/sin(2 pi i / n)) with radius = max(200, 30 n),
\* tabulated from the floating-point results for n <= 6
CircularPosition(start_position, n, i) ==
    LET t200 == << << <<400, 200>> >>,
                   << <<400, 200>>, <<0, 200>> >>,
                   << <<400, 200>>, <<100, 373>>, <<99, 26>> >>,
                   << <<400, 200>>, <<200, 400>>, <<0, 200>>, <<199, 0>> >>,
                   << <<400, 200>>, <<261, 390>>, <<38, 317>>, <<38, 82>>, <<261, 9>> >>,
                   << <<400, 200>>, <<300, 373>>, <<100, 373>>, <<0, 200>>,
                      <<99, 26>>, <<300, 26>> >> >>
        t0 == << << <<200, 0>> >>,
                 << <<200, 0>>, <<-200, 0>> >>,
                 << <<200, 0>>, <<-99, 173>>, <<-100, -173>> >>,
                 << <<200, 0>>, <<0, 200>>, <<-200, 0>>, <<0, -200>> >>,
                 << <<200, 0>>, <<61, 190>>, <<-161, 117>>, <<-161, -117>>, <<61, -190>> >>,
                 << <<200, 0>>, <<100, 173>>, <<-99, 173>>, <<-200, 0>>,
                    <<-100, -173>>, <<100, -173>> >> >>
    IN CASE start_position = <<200, 200>> -> t200[n][i + 1]
         [] start_position = <<0, 0>> -> t0[n][i + 1]

\* Index (1-based) of the last node of that name: the later assignment to
\* node_positions[name] wins
LastIndexOfName(nodes, name) ==
    CHOOSE i \in DOMAIN nodes :
        nodes[i].name = name /\ \A j \in (i + 1)..Len(nodes) : nodes[j].name # name

\* Position of a name in the levels: <<level, index within level>>, 0-based
LevelOf(levels, name) ==
    CHOOSE p \in UNION {{<<l - 1, k - 1>> : k \in DOMAIN levels[l]} : l \in DOMAIN levels} :
        levels[p[1] + 1][p[2] + 1] = name

\* n8n_reorganize_layout after the start_position argument was converted
\* (<<>> for None)
n8n_reorganize_layout(workflow, layout_type, spacing, start_position) ==
    LET nodes == workflow.nodes
        start == IF start_position = <<>> THEN <<200, 200>> ELSE start_position
        names == DistinctNames(nodes, {})
        nameset == {names[i] : i \in DOMAIN names}
        adj == BuildAdjacency(EdgeList(workflow.connections),
                              [n \in nameset |-> <<>>], [n \in nameset |-> 0])
        \* Steps 4 and 5, node_positions a function of the placed names
        update(node_positions) ==
            LET moved == SelectSeq(nodes, LAMBDA n : n.name \in DOMAIN node_positions)
                o == ValidateThenPush(
                       [workflow EXCEPT !.nodes = ListOf([i \in DOMAIN nodes |->
                          IF nodes[i].name \in DOMAIN node_positions
                          THEN [nodes[i] EXCEPT !.position = node_positions[nodes[i].name]]
                          ELSE nodes[i]])], 0)
            IN [o EXCEPT !.records = ListOf([i \in DOMAIN moved |->
                    [name |-> moved[i].name,
                     old_position |-> NodePosition(moved[i], <<0, 0>>),
                     new_position |-> node_positions[moved[i].name]]])]
    IN IF nodes = <<>> THEN ReturnOut(workflow, "InvalidArgument")
       ELSE IF ~adj.ok THEN RaiseOut(workflow, "KeyError")
       ELSE IF layout_type = "grid"
       THEN LET cols == IF ISqrt(Len(nodes)) >= 1 THEN ISqrt(Len(nodes)) ELSE 1
            IN update([n \in nameset |->
                          LET k == LastIndexOfName(nodes, n) - 1
                          IN <<start[1] + (k % cols) * spacing,
                               start[2] + (k \div cols) * spacing>>])
       ELSE IF layout_type = "flow"
       THEN LET queue == SelectSeq(names, LAMBDA n : adj.incoming_count[n] = 0)
                levels == FlowLevels(queue, adj.adjacency, adj.incoming_count, <<>>)
                placed == UNION {{levels[l][k] : k \in DOMAIN levels[l]} : l \in DOMAIN levels}
            IN update([n \in placed |->
                          LET p == LevelOf(levels, n)
                          IN <<start[1] + p[1] * spacing, start[2] + p[2] * spacing>>])
       ELSE IF layout_type = "circular"
       THEN update([n \in nameset |->
                       CircularPosition(start, Len(nodes), LastIndexOfName(nodes, n) - 1)])
       ELSE ReturnOut(workflow, "InvalidArgument")

\* ------------------------------------------------------- subflow extraction
\* One source's connections with every output array filtered to the targets
\* inside node_names (inside = TRUE) or outside it (inside = FALSE); emptied
\* arrays and emptied types are dropped
RECURSIVE FilterTypes(_, _, _)
FilterTypes(tmap, node_names, inside) ==
    IF tmap = <<>> THEN <<>>
    ELSE LET arrays == Head(tmap).val
             filtered_connections ==
                 SelectSeq(ListOf([i \in DOMAIN arrays |->
                              SelectSeq(arrays[i],
                                        LAMBDA c : (c.node \in node_names) = inside)]),
                           LAMBDA arr : arr # <<>>)
         IN (IF filtered_connections # <<>>
             THEN <<[key |-> Head(tmap).key, val |-> filtered_connections]>>
             ELSE <<>>)
            \o FilterTypes(Tail(tmap), node_names, inside)

\* Step 3 of n8n_create_subflow: [extracted, remaining]
RECURSIVE PartitionConnections(_, _, _, _)
PartitionConnections(connections, node_names, extracted, remaining) ==
    IF connections = <<>> THEN [extracted |-> extracted, remaining |-> remaining]
    ELSE LET e == Head(connections)
         IN IF e.key \in node_names
            THEN PartitionConnections(Tail(connections), node_names,
                   DictSet(extracted, e.key,
                           FilterTypes(e.val, node_names, TRUE)),
                   remaining)
            ELSE PartitionConnections(Tail(connections), node_names, extracted,
                   DictSet(remaining, e.key,
                           FilterTypes(e.val, node_names, FALSE)))

RECURSIVE SeqMin(_)
SeqMin(s) == IF Len(s) = 1 THEN s[1]
             ELSE LET m == SeqMin(Tail(s)) IN IF s[1] <= m THEN s[1] ELSE m

\* n8n_create_subflow from the fetched workflow to its first awaited write
n8n_create_subflow(source_workflow, node_names, extract_to_new_workflow) ==
    LET extracted_nodes == SelectSeq(source_workflow.nodes,
                                     LAMBDA n : n.name \in node_names)
        remaining_nodes == SelectSeq(source_workflow.nodes,
                                     LAMBDA n : n.name \notin node_names)
        parts == PartitionConnections(source_workflow.connections, node_names,
                                      <<>>, <<>>)
        remaining == Workflow(remaining_nodes, parts.remaining)
    IN IF extracted_nodes = <<>> THEN ReturnOut(source_workflow, "EmptySelection")
       ELSE IF extract_to_new_workflow
       THEN LET pos == ListOf([i \in DOMAIN extracted_nodes |->
                          NodePosition(extracted_nodes[i], <<0, 0>>)])
                min_x == SeqMin(ListOf([i \in DOMAIN pos |-> pos[i][1]]))
                min_y == SeqMin(ListOf([i \in DOMAIN pos |-> pos[i][2]]))
                moved == ListOf([i \in DOMAIN extracted_nodes |->
                            [extracted_nodes[i] EXCEPT !.position =
                               <<pos[i][1] - min_x + 200, pos[i][2] - min_y + 200>>]])
            IN [Outcome("create", remaining, NoErr, <<>>, 0, FALSE)
                  EXCEPT !.sub = Workflow(moved, parts.extracted)]
       ELSE PushOut(remaining, 0, FALSE)

\* ------------------------------------------------------- merge
\* "while new_name in primary_names: new_name = f"{original_name} ({counter})""
RECURSIVE UniqueName(_, _, _, _)
UniqueName(original_name, new_name, counter, primary_names) ==
    IF new_name \in primary_names
    THEN UniqueName(original_name,
                    original_name \o " (" \o ToString(counter) \o ")",
                    counter + 1, primary_names)
    ELSE new_name

\* "Handle name conflicts": the renamed copies with fresh ids, and name_mapping
RECURSIVE RenameNodes(_, _, _, _, _)
RenameNodes(secondary_nodes, primary_names, name_mapping, next_id, done) ==
    IF secondary_nodes = <<>> THEN [nodes |-> done, name_mapping |-> name_mapping]
    ELSE LET node == Head(secondary_nodes)
             new_name == UniqueName(node.name, node.name, 1, primary_names)
         IN RenameNodes(Tail(secondary_nodes), primary_names \cup {new_name},
                        DictSet(name_mapping, node.name, new_name), next_id + 1,
                        Append(done, [node EXCEPT !.name = new_name, !.id = next_id]))

\* A lookup that leaves every name as it was in the secondary
MapNameUnchanged(name_mapping, name) == name

\* name_mapping.get(name, name)
MapName(name_mapping, name) ==
    IF DictHas(name_mapping, name) THEN DictGet(name_mapping, name) ELSE name

\* Step 4: the secondary connections with both endpoints renamed
RECURSIVE RenameConnections(_, _, _)
RenameConnections(secondary_connections, name_mapping, updated) ==
    IF secondary_connections = <<>> THEN updated
    ELSE LET e == Head(secondary_connections)
             tmap == ListOf([t \in DOMAIN e.val |->
                        [key |-> e.val[t].key,
                         val |-> ListOf([a \in DOMAIN e.val[t].val |->
                                    ListOf([k \in DOMAIN e.val[t].val[a] |->
                                       [e.val[t].val[a][k] EXCEPT !.node =
                                          MapName(name_mapping, @)]])])]])
         IN RenameConnections(Tail(secondary_connections), name_mapping,
                              DictSet(updated, MapName(name_mapping, e.key), tmap))

\* dict.update
RECURSIVE DictUpdate(_, _)
DictUpdate(d, other) ==
    IF other = <<>> THEN d
    ELSE DictUpdate(DictSet(d, Head(other).key, Head(other).val), Tail(other))

\* A test that takes every node with a connections entry for connected
HasOutgoingByKey(tmap) == TRUE

\* has_outgoing: some output array of the node is not empty
HasOutgoing(tmap) ==
    \E t \in DOMAIN tmap : \E a \in DOMAIN tmap[t].val : tmap[t].val[a] # <<>>

\* n8n_merge_workflows after both fetches and the position_offset conversion
\* (<<>> for None)
n8n_merge_workflows(primary_workflow, secondary_workflow, merge_strategy, position_offset, next_id) ==
    LET primary_nodes == primary_workflow.nodes
        renamed == RenameNodes(secondary_workflow.nodes, NodeNames(primary_workflow),
                               <<>>, next_id, <<>>)
        offset == IF position_offset # <<>> THEN position_offset
                  ELSE IF primary_nodes # <<>>
                  THEN <<SeqMax(ListOf([i \in DOMAIN primary_nodes |->
                                   NodePosition(primary_nodes[i], <<0, 0>>)[1]])) + 400, 0>>
                  ELSE <<0, 0>>
        secondary_nodes ==
            ListOf([i \in DOMAIN renamed.nodes |->
               [renamed.nodes[i] EXCEPT !.position =
                  <<NodePosition(renamed.nodes[i], <<0, 0>>)[1] + offset[1],
                    NodePosition(renamed.nodes[i], <<0, 0>>)[2] + offset[2]>>]])
        updated_connections == RenameConnections(secondary_workflow.connections,
                                                 renamed.name_mapping, <<>>)
        merged_nodes == primary_nodes \o secondary_nodes
        merged_connections == DictUpdate(primary_workflow.connections,
                                         updated_connections)
        primary_ending_nodes ==
            SelectSeq(ListOf([i \in DOMAIN primary_nodes |-> primary_nodes[i].name]),
                      LAMBDA n : \/ ~DictHas(merged_connections, n)
                                 \/ ~HasOutgoing(DictGet(merged_connections, n)))
        edges == EdgeList(updated_connections)
        incoming_nodes == {edges[k].target : k \in DOMAIN edges}
        secondary_starting_nodes ==
            SelectSeq(ListOf([i \in DOMAIN secondary_nodes |-> secondary_nodes[i].name]),
                      LAMBDA n : n \notin incoming_nodes)
        ids == Len(secondary_nodes)
    IN IF merge_strategy = "connect" /\ primary_ending_nodes # <<>>
          /\ secondary_starting_nodes # <<>>
       THEN LET source_node == primary_ending_nodes[1]
                target_node == secondary_starting_nodes[1]
                c1 == IF ~DictHas(merged_connections, source_node)
                      THEN DictSet(merged_connections, source_node,
                                   <<[key |-> "main", val |-> << <<>> >>]>>)
                      ELSE IF ~DictHas(DictGet(merged_connections, source_node), "main")
                      THEN DictSet(merged_connections, source_node,
                                   DictSet(DictGet(merged_connections, source_node),
                                           "main", << <<>> >>))
                      ELSE merged_connections
                tmap == DictGet(c1, source_node)
            IN IF DictGet(tmap, "main") = <<>>
               THEN [RaiseOut(Workflow(merged_nodes, c1), "IndexError") EXCEPT !.ids = ids]
               ELSE ValidateThenPush(
                      Workflow(merged_nodes,
                        DictSet(c1, source_node,
                          DictSet(tmap, "main",
                            [DictGet(tmap, "main") EXCEPT ![1] =
                               Append(@, Edge(target_node, "main", 0))]))),
                      ids)
       ELSE ValidateThenPush(Workflow(merged_nodes, merged_connections), ids)

\* ------------------------------------------------------- state
VARIABLES
    remote,             \* the store: workflow id -> workflow
    created,            \* the workflows the store created (create_workflow)
    pc,                 \* "idle", a pending await ("get", "get2", "create",
                        \* "push", "compensate", "rollback") or "done"
    tool,               \* the tool being served
    args,               \* its arguments, after the conversions done before the fetch
    workflow,           \* the tool's working copy (the payload once pc = "push")
    subflow_data,       \* n8n_create_subflow's payload for create_workflow
    original_workflow,  \* the deep copy taken right after the fetch
    has_original,       \* 'original_workflow' in locals()
    pending,            \* the result the tool returns once the await is over
    result,             \* the result returned by the last finished invocation
    nextId,             \* next value of uuid.uuid4()
    calls,              \* invocations still to come
    pre,                \* history: the store when the invocation started
    failure,            \* history: the first failure met in this invocation
    checked,            \* history: the validator found the working copy valid
    writes,             \* history: the writes issued by this invocation
    base,               \* history: the store before the first invocation
    peer                \* the locals of a second caller's call, waiting

vars == <<remote, created, pc, tool, args, workflow, subflow_data,
          original_workflow, has_original, pending, result, nextId, calls,
          pre, failure, checked, writes, base, peer>>

Result(status, error, records, with_completed) ==
    [status |-> status, error |-> error, records |-> records,
     with_completed |-> with_completed]
NoResult == Result("none", NoErr, <<>>, FALSE)
Failed(error) == Result("failed", error, <<>>, FALSE)
RemoteFailure(call) == Err("RemoteFailure", -1, "", call)

EmptyWorkflow == Workflow(<<>>, <<>>)

\* The locals of a call: its position, its arguments, what it fetched, built
\* and wrote so far, and the result it returned
Call(at, t, a, wf, sub, original, has, p, r, before, f, c, w) ==
    [pc |-> at, tool |-> t, args |-> a, workflow |-> wf, subflow_data |-> sub,
     original_workflow |-> original, has_original |-> has, pending |-> p,
     result |-> r, pre |-> before, failure |-> f, checked |-> c, writes |-> w]

\* No call yet: the server waits for it
NoCall ==
    Call("idle", "", <<>>, EmptyWorkflow, EmptyWorkflow, EmptyWorkflow, FALSE,
         NoResult, NoResult, <<>>, NoErr, FALSE, <<>>)

\* The workflow id every tool of the model edits, and the secondary of a merge
PrimaryId == "w1"
SecondaryId == "w2"

\* A write as the store saw it
Write(call, role, payload, accepted, applied) ==
    [call |-> call, role |-> role, payload |-> payload, accepted |-> accepted,
     applied |-> applied, checked |-> checked]

\* The tools that take a snapshot right after their (last) fetch
SnapshotTools == {"insert_node_between", "update_node_parameters", "add_node",
                  "delete_node", "move_node", "add_connection",
                  "remove_connection", "update_connection", "batch_operations",
                  "reorganize_layout", "merge_workflows"}

\* The conversions a tool applies to its arguments before its first await:
\* [ok, args]
ConvertArgs(t, a) ==
    CASE t = "add_node" ->
           LET p == convert_position(a.position)
           IN [ok |-> p.ok, args |-> [a EXCEPT !.position = p.val]]
      [] t = "move_node" ->
           LET p == convert_new_position(a.new_position)
           IN [ok |-> p.ok, args |-> [a EXCEPT !.new_position = p.val]]
      [] t = "reorganize_layout" ->
           LET p == convert_new_position(a.start_position)
           IN [ok |-> p.ok, args |-> [a EXCEPT !.start_position = p.val]]
      [] t = "merge_workflows" ->
           LET p == convert_new_position(a.position_offset)
           IN [ok |-> p.ok, args |-> [a EXCEPT !.position_offset = p.val]]
      [] OTHER -> [ok |-> TRUE, args |-> a]

\* The code of tool t between its fetch and its next await or return
LocalStep(t, a, wf, id) ==
    CASE t = "insert_node_between" ->
           n8n_insert_node_between(wf, a.source_node_name, a.target_node_name,
                                   a.new_node_config, id)
      [] t = "update_node_parameters" ->
           n8n_update_node_parameters(wf, a.node_name, a.parameter_updates)
      [] t = "add_node" ->
           n8n_add_node(wf, a.node_config, a.position, a.connect_to_node, id)
      [] t = "delete_node" ->
           n8n_delete_node(wf, a.node_name, a.reconnect_connections)
      [] t = "move_node" -> n8n_move_node(wf, a.node_name, a.new_position)
      [] t = "add_connection" ->
           n8n_add_connection(wf, a.source_node_name, a.target_node_name,
                              a.connection_type, a.source_output_index,
                              a.target_input_index)
      [] t = "remove_connection" ->
           n8n_remove_connection(wf, a.source_node_name, a.target_node_name,
                                 a.connection_type)
      [] t = "update_connection" ->
           n8n_update_connection(wf, a.source_node_name, a.target_node_name,
                                 a.new_target_node_name, a.connection_type)
      [] t = "batch_operations" -> n8n_batch_operations(wf, a.operations, id)
      [] t = "reorganize_layout" ->
           n8n_reorganize_layout(wf, a.layout_type, a.spacing, a.start_position)
      [] t = "create_subflow" ->
           n8n_create_subflow(wf, a.node_names, a.extract_to_new_workflow)

\* A compensating replace that sent the working copy, as it would if the
\* snapshot were an alias of the fetched workflow instead of a deep copy
RollbackPayloadAliased == workflow

\* The payload of a compensating replace: client.update_workflow(workflow_id,
\* original_workflow)
RollbackPayload == original_workflow

\* Tool t is invoked with arguments a
Invoke(t, a) ==
    LET c == ConvertArgs(t, a)
    IN /\ calls > 0
       /\ calls' = calls - 1
       /\ tool' = t
       /\ args' = c.args
       /\ pre' = remote
       /\ writes' = <<>>
       /\ checked' = FALSE
       /\ has_original' = FALSE
       /\ original_workflow' = EmptyWorkflow
       /\ workflow' = EmptyWorkflow
       /\ subflow_data' = EmptyWorkflow
       /\ pending' = NoResult
       /\ IF c.ok
          THEN /\ pc' = "get"
               /\ result' = NoResult
               /\ failure' = NoErr
          ELSE /\ pc' = "done"
               /\ result' = Failed(Err("InvalidArgument", -1, "", ""))
               /\ failure' = Err("InvalidArgument", -1, "", "")
       /\ UNCHANGED <<peer, base, remote, created, nextId>>

\* What follows the outcome o of a tool's local code
Continue(o) ==
    /\ workflow' = o.wf
    /\ subflow_data' = o.sub
    /\ nextId' = nextId + o.ids
    /\ checked' = o.checked
    /\ CASE o.out = "push" ->
              /\ pc' = "push"
              /\ pending' = Result("success", NoErr, o.records, FALSE)
              /\ UNCHANGED <<result, failure>>
         [] o.out = "create" ->
              /\ pc' = "create"
              /\ pending' = Result("success", NoErr, o.records, FALSE)
              /\ UNCHANGED <<result, failure>>
         [] o.out = "return" ->
              /\ pc' = "done"
              /\ result' = Failed(o.error)
              /\ failure' = o.error
              /\ UNCHANGED pending
         [] o.out = "compensate" ->
              /\ pc' = "compensate"
              /\ pending' = Result("failed", o.error, o.records, o.with_completed)
              /\ failure' = o.error
              /\ UNCHANGED result
         [] o.out = "raise" ->
              /\ pc' = "rollback"
              /\ pending' = Failed(o.error)
              /\ failure' = o.error
              /\ UNCHANGED result

\* The fetch as it would go on with "original_workflow = workflow" in place
\* of the deep copy: the snapshot names the working copy and shows its edits
GetOkAliased ==
    /\ pc = "get"
    /\ IF tool = "merge_workflows"
       THEN /\ workflow' = remote[PrimaryId]
            /\ pc' = "get2"
            /\ UNCHANGED <<original_workflow, has_original, subflow_data, nextId,
                           checked, pending, result, failure>>
       ELSE /\ Continue(LocalStep(tool, args, remote[PrimaryId], nextId))
            /\ has_original' = (tool \in SnapshotTools)
            /\ original_workflow' = IF tool \in SnapshotTools THEN workflow'
                                    ELSE original_workflow
    /\ UNCHANGED <<peer, base, remote, created, tool, args, calls, pre, writes>>

\* client.get_workflow(workflow_id) answers
GetOk ==
    /\ pc = "get"
    /\ IF tool = "merge_workflows"
       THEN /\ workflow' = remote[PrimaryId]
            /\ pc' = "get2"
            /\ UNCHANGED <<original_workflow, has_original, subflow_data, nextId,
                           checked, pending, result, failure>>
       ELSE /\ original_workflow' = IF tool \in SnapshotTools THEN remote[PrimaryId]
                                    ELSE original_workflow
            /\ has_original' = (tool \in SnapshotTools)
            /\ Continue(LocalStep(tool, args, remote[PrimaryId], nextId))
    /\ UNCHANGED <<peer, base, remote, created, tool, args, calls, pre, writes>>

\* client.get_workflow raises: no snapshot exists yet, nothing is rolled back
GetFail ==
    /\ pc \in {"get", "get2"}
    /\ pc' = "done"
    /\ result' = Failed(RemoteFailure("get"))
    /\ failure' = RemoteFailure("get")
    /\ UNCHANGED <<peer, base, remote, created, tool, args, workflow, subflow_data,
                   original_workflow, has_original, pending, nextId, calls, pre,
                   checked, writes>>

\* n8n_merge_workflows: client.get_workflow(secondary_workflow_id) answers
Get2Ok ==
    /\ pc = "get2"
    /\ original_workflow' = workflow
    /\ has_original' = TRUE
    /\ Continue(n8n_merge_workflows(workflow, remote[SecondaryId],
                                    args.merge_strategy, args.position_offset, nextId))
    /\ UNCHANGED <<peer, base, remote, created, tool, args, calls, pre, writes>>

\* The store after a write of payload to workflow id, when it took effect
Stored(id, payload, applied) ==
    IF applied THEN [remote EXCEPT ![id] = payload] ELSE remote

\* n8n_create_subflow: client.create_workflow(subflow_data) answers
CreateOk ==
    /\ pc = "create"
    /\ created' = Append(created, subflow_data)
    /\ writes' = Append(writes, Write("create", "forward", subflow_data, TRUE, TRUE))
    /\ pc' = "push"
    /\ UNCHANGED <<peer, base, remote, tool, args, workflow, subflow_data, original_workflow,
                   has_original, pending, result, nextId, calls, pre, failure,
                   checked>>

\* client.create_workflow raises: n8n_create_subflow has no rollback
CreateFail ==
    \E applied \in BOOLEAN :
        /\ pc = "create"
        /\ created' = IF applied THEN Append(created, subflow_data) ELSE created
        /\ writes' = Append(writes,
                            Write("create", "forward", subflow_data, FALSE, applied))
        /\ pc' = "done"
        /\ result' = Failed(RemoteFailure("create"))
        /\ failure' = RemoteFailure("create")
        /\ UNCHANGED <<peer, base, remote, tool, args, workflow, subflow_data,
                       original_workflow, has_original, pending, nextId, calls,
                       pre, checked>>

\* The forward replace as it would be if the tool fetched the workflow again
\* and compared it with its snapshot before replacing it: a workflow changed
\* in between is reported as a conflict and not replaced
PushOkVersioned ==
    /\ pc = "push"
    /\ pc' = "done"
    /\ IF remote[PrimaryId] = original_workflow \/ ~has_original
       THEN /\ remote' = Stored(PrimaryId, workflow, TRUE)
            /\ writes' = Append(writes, Write("update", "forward", workflow, TRUE, TRUE))
            /\ result' = pending
            /\ UNCHANGED failure
       ELSE /\ result' = Failed(Err("Conflict", -1, "", ""))
            /\ failure' = Err("Conflict", -1, "", "")
            /\ UNCHANGED <<remote, writes>>
    /\ UNCHANGED <<peer, base, created, tool, args, workflow, subflow_data,
                   original_workflow, has_original, pending, nextId, calls, pre,
                   checked>>

\* The forward client.update_workflow(workflow_id, update_payload) is accepted
PushOk ==
    /\ pc = "push"
    /\ remote' = Stored(PrimaryId, workflow, TRUE)
    /\ writes' = Append(writes, Write("update", "forward", workflow, TRUE, TRUE))
    /\ pc' = "done"
    /\ result' = pending
    /\ UNCHANGED <<peer, base, created, tool, args, workflow, subflow_data, original_workflow,
                   has_original, pending, nextId, calls, pre, failure, checked>>

\* A forward client.update_workflow that raises past a handler with no
\* rollback: the failure is returned and nothing is compensated
PushFailUnhandled ==
    \E applied \in BOOLEAN :
        /\ pc = "push"
        /\ remote' = Stored(PrimaryId, workflow, applied)
        /\ writes' = Append(writes, Write("update", "forward", workflow, FALSE, applied))
        /\ failure' = RemoteFailure("update")
        /\ pc' = "done"
        /\ result' = Failed(RemoteFailure("update"))
        /\ UNCHANGED <<peer, base, created, tool, args, workflow, subflow_data,
                       original_workflow, has_original, pending, nextId, calls,
                       pre, checked>>

\* The forward client.update_workflow raises: the outer except handler runs
PushFail ==
    \E applied \in BOOLEAN :
        /\ pc = "push"
        /\ remote' = Stored(PrimaryId, workflow, applied)
        /\ writes' = Append(writes, Write("update", "forward", workflow, FALSE, applied))
        /\ failure' = RemoteFailure("update")
        /\ IF has_original
           THEN /\ pc' = "rollback"
                /\ pending' = Failed(RemoteFailure("update"))
                /\ UNCHANGED result
           ELSE /\ pc' = "done"
                /\ result' = Failed(RemoteFailure("update"))
                /\ UNCHANGED pending
        /\ UNCHANGED <<peer, base, created, tool, args, workflow, subflow_data,
                       original_workflow, has_original, nextId, calls, pre, checked>>

\* n8n_batch_operations: the update_workflow(workflow_id, original_workflow)
\* awaited inside the try block, after a failed operation or a failed final
\* validation, is accepted: the failure is returned
CompensateOk ==
    /\ pc = "compensate"
    /\ remote' = Stored(PrimaryId, RollbackPayload, TRUE)
    /\ writes' = Append(writes, Write("update", "compensate", RollbackPayload, TRUE, TRUE))
    /\ pc' = "done"
    /\ result' = pending
    /\ UNCHANGED <<peer, base, created, tool, args, workflow, subflow_data, original_workflow,
                   has_original, pending, nextId, calls, pre, failure, checked>>

\* ... raises: the exception leaves the handler of the failed operation and
\* reaches the outer except handler as e
CompensateFail ==
    \E applied \in BOOLEAN :
        /\ pc = "compensate"
        /\ remote' = Stored(PrimaryId, RollbackPayload, applied)
        /\ writes' = Append(writes,
                            Write("update", "compensate", RollbackPayload, FALSE, applied))
        /\ pc' = "rollback"
        /\ pending' = Failed(RemoteFailure("update"))
        /\ UNCHANGED <<peer, base, created, tool, args, workflow, subflow_data,
                       original_workflow, has_original, result, nextId, calls, pre,
                       failure, checked>>

\* The outer except handler: "if 'original_workflow' in locals(): try: await
\* client.update_workflow(workflow_id, original_workflow)" is accepted
RollbackOk ==
    /\ pc = "rollback"
    /\ remote' = Stored(PrimaryId, RollbackPayload, TRUE)
    /\ writes' = Append(writes, Write("update", "compensate", RollbackPayload, TRUE, TRUE))
    /\ pc' = "done"
    /\ result' = pending
    /\ UNCHANGED <<peer, base, created, tool, args, workflow, subflow_data, original_workflow,
                   has_original, pending, nextId, calls, pre, failure, checked>>

\* The refused rollback as it would end without "except: pass": the
\* exception leaves the tool and no result is returned
RollbackFailEscapes ==
    \E applied \in BOOLEAN :
        /\ pc = "rollback"
        /\ remote' = Stored(PrimaryId, RollbackPayload, applied)
        /\ writes' = Append(writes,
                            Write("update", "compensate", RollbackPayload, FALSE, applied))
        /\ pc' = "escaped"
        /\ UNCHANGED <<peer, base, created, tool, args, workflow, subflow_data,
                       original_workflow, has_original, pending, result, nextId, calls,
                       pre, failure, checked>>

\* ... raises: "except: pass", the error e is returned all the same
RollbackFail ==
    \E applied \in BOOLEAN :
        /\ pc = "rollback"
        /\ remote' = Stored(PrimaryId, RollbackPayload, applied)
        /\ writes' = Append(writes,
                            Write("update", "compensate", RollbackPayload, FALSE, applied))
        /\ pc' = "done"
        /\ result' = pending
        /\ UNCHANGED <<peer, base, created, tool, args, workflow, subflow_data,
                       original_workflow, has_original, pending, nextId, calls, pre,
                       failure, checked>>

\* The locals of the running call
Running ==
    Call(pc, tool, args, workflow, subflow_data, original_workflow, has_original,
         pending, result, pre, failure, checked, writes)

\* A second caller, served by a server process of its own, works on the same
\* store: while one call waits for the answer to its get_workflow or
\* update_workflow request (or has returned), the other one arrives or goes
\* on after its own request. A call that has returned does not go on.
Switch ==
    /\ pc # "idle" \/ peer.pc # "idle"
    /\ peer.pc # "done"
    /\ peer' = Running
    /\ pc' = peer.pc
    /\ tool' = peer.tool
    /\ args' = peer.args
    /\ workflow' = peer.workflow
    /\ subflow_data' = peer.subflow_data
    /\ original_workflow' = peer.original_workflow
    /\ has_original' = peer.has_original
    /\ pending' = peer.pending
    /\ result' = peer.result
    /\ pre' = IF peer.pc = "idle" THEN remote ELSE peer.pre
    /\ failure' = peer.failure
    /\ checked' = peer.checked
    /\ writes' = peer.writes
    /\ UNCHANGED <<base, remote, created, nextId, calls>>

\* The result was handed to the caller and the locals of the call are gone;
\* the server waits for the next call
Return ==
    /\ pc = "done"
    /\ pc' = "idle"
    /\ tool' = ""
    /\ args' = <<>>
    /\ workflow' = EmptyWorkflow
    /\ subflow_data' = EmptyWorkflow
    /\ original_workflow' = EmptyWorkflow
    /\ has_original' = FALSE
    /\ pending' = NoResult
    /\ result' = NoResult
    /\ pre' = remote
    /\ failure' = NoErr
    /\ checked' = FALSE
    /\ writes' = <<>>
    /\ UNCHANGED <<peer, base, remote, created, nextId, calls>>

\* ------------------------------------------------------- workflows
NodeA == Node(1, "A", "trigger", <<100, 300>>)
NodeN == Node(2, "N", "set", <<400, 300>>)
NodeB == Node(3, "B", "http", <<700, 200>>)
Main(arrays) == [key |-> "main", val |-> arrays]
Error(arrays) == [key |-> "error", val |-> arrays]
To(target) == Edge(target, "main", 0)
ErrTo(target) == Edge(target, "error", 0)

\* A -> N -> B
WChain == Workflow(<<NodeA, NodeN, NodeB>>,
                   <<[key |-> "A", val |-> <<Main(<< <<To("N")>> >>)>>],
                     [key |-> "N", val |-> <<Main(<< <<To("B")>> >>)>>]>>)
\* A -> N -> B with a second, "error" edge A -> N
WError == Workflow(<<NodeA, NodeN, NodeB>>,
                   <<[key |-> "A", val |-> <<Main(<< <<To("N")>> >>),
                                             Error(<< <<ErrTo("N")>> >>)>>],
                     [key |-> "N", val |-> <<Main(<< <<To("B")>> >>)>>]>>)
\* A -> N, and N -> B on output 1 of N
WOutput1 == Workflow(<<NodeA, NodeN, NodeB>>,
                     <<[key |-> "A", val |-> <<Main(<< <<To("N")>> >>)>>],
                       [key |-> "N", val |-> <<Main(<< <<>>, <<To("B")>> >>)>>]>>)
\* A and B, not connected
WPair == Workflow(<<NodeA, NodeB>>, <<>>)
\* A -> N where N has no type: a workflow the validator rejects
WInvalid == Workflow(<<NodeA, Node(2, "N", "", <<400, 300>>)>>,
                     <<[key |-> "A", val |-> <<Main(<< <<To("N")>> >>)>>]>>)
\* The secondary of a merge: A -> S
WSecondary == Workflow(<<Node(7, "A", "trigger", <<0, 0>>),
                         Node(8, "S", "set", <<300, 0>>)>>,
                       <<[key |-> "A", val |-> <<Main(<< <<To("S")>> >>)>>]>>)
\* The secondary of a merge holding the names "A" and "A (1)":
\* A -> A (1) -> S
WSecondaryNames == Workflow(<<Node(7, "A", "trigger", <<0, 0>>),
                              Node(8, "A (1)", "set", <<300, 0>>),
                              Node(9, "S", "set", <<600, 0>>)>>,
                            <<[key |-> "A", val |-> <<Main(<< <<To("A (1)")>> >>)>>],
                              [key |-> "A (1)", val |-> <<Main(<< <<To("S")>> >>)>>]>>)
\* A secondary in which every node has an incoming edge: S -> T -> S
WSecondaryLoop == Workflow(<<Node(7, "S", "set", <<0, 0>>),
                             Node(8, "T", "set", <<300, 0>>)>>,
                           <<[key |-> "S", val |-> <<Main(<< <<To("T")>> >>)>>],
                             [key |-> "T", val |-> <<Main(<< <<To("S")>> >>)>>]>>)
\* A -> A (1), where A (1) has an output with no edge
WNamed == Workflow(<<NodeA, Node(2, "A (1)", "set", <<400, 300>>)>>,
                   <<[key |-> "A", val |-> <<Main(<< <<To("A (1)")>> >>)>>],
                     [key |-> "A (1)", val |-> <<Main(<< <<>> >>)>>]>>)
\* A -> B -> A: every node has an outgoing edge
WCycle == Workflow(<<NodeA, NodeB>>,
                   <<[key |-> "A", val |-> <<Main(<< <<To("B")>> >>)>>],
                     [key |-> "B", val |-> <<Main(<< <<To("A")>> >>)>>]>>)

\* Four nodes, D below all others: A -> B, A -> N, A -> D, N -> D, B -> D
WDiamond == Workflow(<<NodeA, NodeN, NodeB, Node(4, "D", "set", <<1000, 300>>)>>,
                     <<[key |-> "A", val |-> <<Main(<< <<To("B"), To("N"), To("D")>> >>)>>],
                       [key |-> "N", val |-> <<Main(<< <<To("D")>> >>)>>],
                       [key |-> "B", val |-> <<Main(<< <<To("D")>> >>)>>]>>)
\* A leads into the cycle N -> B -> N; D follows both A and B
WLoop == Workflow(<<NodeA, NodeN, NodeB, Node(4, "D", "set", <<1000, 300>>)>>,
                  <<[key |-> "A", val |-> <<Main(<< <<To("N"), To("D")>> >>)>>],
                    [key |-> "N", val |-> <<Main(<< <<To("B")>> >>)>>],
                    [key |-> "B", val |-> <<Main(<< <<To("N"), To("D")>> >>)>>]>>)

\* A and B below the origin of the canvas
WLow == Workflow(<<Node(1, "A", "trigger", <<100, -100>>),
                   Node(3, "B", "http", <<700, -1>>)>>, <<>>)

\* A -> N -> B where A and B have no position
WUnplaced == Workflow(<<Node(1, "A", "trigger", <<>>), NodeN,
                        Node(3, "B", "http", <<>>)>>,
                      <<[key |-> "A", val |-> <<Main(<< <<To("N")>> >>)>>],
                        [key |-> "N", val |-> <<Main(<< <<To("B")>> >>)>>]>>)

\* The state after construction: the server idle, the store holding one of
\* the primaries under PrimaryId and one of the secondaries under SecondaryId
InitStore(primaries, secondaries, n) ==
    /\ remote \in {[w1 |-> w, w2 |-> s] : w \in primaries, s \in secondaries}
    /\ created = <<>>
    /\ pc = "idle"
    /\ tool = ""
    /\ args = <<>>
    /\ workflow = EmptyWorkflow
    /\ subflow_data = EmptyWorkflow
    /\ original_workflow = EmptyWorkflow
    /\ has_original = FALSE
    /\ pending = NoResult
    /\ result = NoResult
    /\ nextId = 10   \* above every id of the initial workflows
    /\ calls = n
    /\ pre = remote
    /\ failure = NoErr
    /\ checked = FALSE
    /\ writes = <<>>
    /\ base = remote
    /\ peer = NoCall

InitWith(workflows, n) == InitStore(workflows, {WSecondary}, n)

\* ------------------------------------------------------- invocations
\* pc = "idle" is the server waiting for the next call; each tool is an action
\* that draws its arguments from a menu.
Config(name, type) == [name |-> name, type |-> type]

InsertArgs ==
    {[source_node_name |-> s, target_node_name |-> "N", new_node_config |-> c] :
        s \in {"A", "Z"}, c \in {Config("X", "set"), Config("X", "")}}
    \cup {[source_node_name |-> "A", target_node_name |-> "B",
           new_node_config |-> Config("X", "set")],
          [source_node_name |-> "A", target_node_name |-> "N",
           new_node_config |-> Config("B", "set")]}

UpdateParametersArgs ==
    {[node_name |-> n, parameter_updates |-> <<[path |-> p, value |-> PLeaf(1)]>>] :
        n \in {"N", "Z"}, p \in {<<"k">>, <<"k", "j">>}}

AddNodeArgs ==
    {[node_config |-> Config("X", "set"), position |-> p, connect_to_node |-> c] :
        p \in {PosNone, PosList(<<500, 100>>), PosStr("[500, 100]"), PosStr("oops"),
               PosList(<<500, 100, 7>>), PosStr("[500, 100, 7]")},
        c \in {"", "A"}}
    \cup {[node_config |-> Config("X", ""), position |-> PosNone, connect_to_node |-> ""]}

DeleteNodeArgs ==
    {[node_name |-> n, reconnect_connections |-> r] :
        n \in {"N", "A", "B", "X", "Z"}, r \in BOOLEAN}

MoveNodeArgs ==
    {[node_name |-> n, new_position |-> p] :
        n \in {"N", "Z"},
        p \in {PosList(<<0, 0>>), PosStr("[500, 100]"), PosStr("[500]"),
               PosList(<<500, 100, 7>>), PosStr("[500, 100, 7]")}}

ConnectionTypes == {"main", "error"}

AddConnectionArgs ==
    {[source_node_name |-> s, target_node_name |-> t, connection_type |-> c,
      source_output_index |-> o, target_input_index |-> 0] :
        s \in {"A", "N"}, t \in {"N", "B", "Z"}, c \in ConnectionTypes, o \in {0, 1}}

RemoveConnectionArgs ==
    {[source_node_name |-> s, target_node_name |-> t, connection_type |-> c] :
        s \in {"A", "N"}, t \in {"N", "B", "Z"}, c \in ConnectionTypes}

UpdateConnectionArgs ==
    {[source_node_name |-> "A", target_node_name |-> t, new_target_node_name |-> n,
      connection_type |-> c] :
        t \in {"N", "B"}, n \in {"B", "A", "Z"}, c \in ConnectionTypes}

\* The operations a batch is made of
BatchOps ==
    {OpAddNode(Config("X", "set"), PosNone), OpAddNode(Config("X", ""), PosNone),
     OpDeleteNode("N"), OpAddConnection("A", "B", "main"),
     OpAddConnection("A", "Z", "main"), OpMoveNode("N", PosList(<<0, 0>>)),
     OpUnknown}

\* The lists of 1 .. n operations
OpLists(n) == UNION {[1..k -> BatchOps] : k \in 1..n}

BatchArgs == {[operations |-> ops] : ops \in OpLists(MaxOps)}

LayoutArgs ==
    {[layout_type |-> l, spacing |-> 100, start_position |-> p] :
        l \in {"grid", "flow", "circular", "hierarchical"},
        p \in {PosNone, PosList(<<0, 0>>)}}
    \cup {[layout_type |-> "grid", spacing |-> 100, start_position |-> p] :
            p \in {PosStr("oops"), PosStr("[500, 100]"), PosList(<<500, 100, 7>>),
                   PosStr("[500, 100, 7]")}}

SubflowArgs ==
    {[node_names |-> ns, extract_to_new_workflow |-> e] :
        ns \in {{"N"}, {"N", "B"}, {"Z"}}, e \in BOOLEAN}

MergeArgs ==
    {[merge_strategy |-> m, position_offset |-> p] :
        m \in {"append", "overlay", "connect", "chain"},
        p \in {PosNone, PosList(<<0, 500>>)}}
    \cup {[merge_strategy |-> "append", position_offset |-> p] :
            p \in {PosStr("oops"), PosStr("[500, 100]"), PosList(<<500, 100, 7>>),
                   PosStr("[500, 100, 7]")}}

insert_node_between ==
    /\ pc = "idle"
    /\ \E a \in InsertArgs : Invoke("insert_node_between", a)
update_node_parameters ==
    /\ pc = "idle"
    /\ \E a \in UpdateParametersArgs : Invoke("update_node_parameters", a)
add_node ==
    /\ pc = "idle"
    /\ \E a \in AddNodeArgs : Invoke("add_node", a)
delete_node ==
    /\ pc = "idle"
    /\ \E a \in DeleteNodeArgs : Invoke("delete_node", a)
move_node ==
    /\ pc = "idle"
    /\ \E a \in MoveNodeArgs : Invoke("move_node", a)
add_connection ==
    /\ pc = "idle"
    /\ \E a \in AddConnectionArgs : Invoke("add_connection", a)
remove_connection ==
    /\ pc = "idle"
    /\ \E a \in RemoveConnectionArgs : Invoke("remove_connection", a)
update_connection ==
    /\ pc = "idle"
    /\ \E a \in UpdateConnectionArgs : Invoke("update_connection", a)
batch_operations ==
    /\ pc = "idle"
    /\ \E a \in BatchArgs : Invoke("batch_operations", a)
reorganize_layout ==
    /\ pc = "idle"
    /\ \E a \in LayoutArgs : Invoke("reorganize_layout", a)
create_subflow ==
    /\ pc = "idle"
    /\ \E a \in SubflowArgs : Invoke("create_subflow", a)
merge_workflows ==
    /\ pc = "idle"
    /\ \E a \in MergeArgs : Invoke("merge_workflows", a)

\* ------------------------------------------------------- specifications
\* Every tool, one after the other
Init == InitWith({WChain, WError, WInvalid}, MaxCalls)

Next ==
    \/ insert_node_between \/ update_node_parameters \/ add_node \/ delete_node
    \/ move_node \/ add_connection \/ remove_connection \/ update_connection
    \/ batch_operations \/ reorganize_layout \/ create_subflow \/ merge_workflows
    \/ GetOk \/ GetFail \/ Get2Ok \/ CreateOk \/ CreateFail
    \/ PushOk \/ PushFail \/ CompensateOk \/ CompensateFail
    \/ RollbackOk \/ RollbackFail \/ Return

Spec == Init /\ [][Next]_vars

\* Batches only
InitBatch == InitWith({WChain, WError, WPair}, MaxCalls)

NextBatch ==
    \/ batch_operations
    \/ GetOk \/ GetFail \/ PushOk \/ PushFail \/ CompensateOk \/ CompensateFail
    \/ RollbackOk \/ RollbackFail \/ Return

SpecBatch == InitBatch /\ [][NextBatch]_vars

\* The connection editors
InitConnections == InitWith({WChain, WPair, WOutput1}, MaxEdits)

NextConnections ==
    \/ add_connection \/ remove_connection
    \/ GetOk \/ GetFail \/ PushOk \/ PushFail \/ RollbackOk \/ RollbackFail \/ Return

SpecConnections == InitConnections /\ [][NextConnections]_vars

\* Node deletion
InitDelete == InitWith({WChain, WError, WOutput1, WPair}, MaxEdits)

NextDelete ==
    \/ delete_node
    \/ GetOk \/ GetFail \/ PushOk \/ PushFail \/ RollbackOk \/ RollbackFail \/ Return

SpecDelete == InitDelete /\ [][NextDelete]_vars

\* An insertion followed by a deletion
InitRoundTrip == InitWith({WChain, WError, WOutput1, WPair}, MaxEdits)

NextRoundTrip ==
    \/ insert_node_between \/ delete_node
    \/ GetOk \/ GetFail \/ PushOk \/ PushFail \/ RollbackOk \/ RollbackFail \/ Return

SpecRoundTrip == InitRoundTrip /\ [][NextRoundTrip]_vars

\* Merges
InitMerge == InitStore({WChain, WNamed, WCycle},
                       {WSecondary, WSecondaryNames, WSecondaryLoop}, MaxCalls)

NextMerge ==
    \/ merge_workflows
    \/ GetOk \/ GetFail \/ Get2Ok \/ PushOk \/ PushFail
    \/ RollbackOk \/ RollbackFail \/ Return

SpecMerge == InitMerge /\ [][NextMerge]_vars

\* Node additions, alone and in a batch
InitPlace == InitWith({EmptyWorkflow, WChain, WLow}, MaxCalls)

NextPlace ==
    \/ add_node \/ batch_operations
    \/ GetOk \/ GetFail \/ PushOk \/ PushFail \/ CompensateOk \/ CompensateFail
    \/ RollbackOk \/ RollbackFail \/ Return

SpecPlace == InitPlace /\ [][NextPlace]_vars

\* Subflow extraction alone
InitSubflow == InitWith({WChain, WError, WOutput1, WPair}, MaxCalls)

NextSubflow ==
    \/ create_subflow
    \/ GetOk \/ GetFail \/ CreateOk \/ CreateFail \/ PushOk \/ PushFail \/ Return

SpecSubflow == InitSubflow /\ [][NextSubflow]_vars

\* Layouts, of stored workflows and of what a deletion left of them
InitLayout == InitWith({EmptyWorkflow, WError, WDiamond, WLoop}, MaxEdits)

NextLayout ==
    \/ delete_node \/ reorganize_layout
    \/ GetOk \/ GetFail \/ PushOk \/ PushFail \/ RollbackOk \/ RollbackFail \/ Return

SpecLayout == InitLayout /\ [][NextLayout]_vars

\* Insertions, between nodes with and without a position
InitInsert == InitWith({WChain, WLoop, WUnplaced}, MaxEdits)

NextInsert ==
    \/ insert_node_between
    \/ GetOk \/ GetFail \/ PushOk \/ PushFail \/ RollbackOk \/ RollbackFail \/ Return

SpecInsert == InitInsert /\ [][NextInsert]_vars

\* Two calls on the same workflow id, interleaved at their requests, until both
\* have returned
InitConcurrent == InitWith({WChain, WPair}, MaxEdits)

NextConcurrent ==
    \/ add_connection \/ move_node \/ Switch
    \/ GetOk \/ GetFail \/ PushOk \/ PushFail \/ RollbackOk \/ RollbackFail

SpecConcurrent == InitConcurrent /\ [][NextConcurrent]_vars

\* A batch and a second call on the same workflow id, interleaved likewise
InitInterleaved == InitWith({WChain}, MaxEdits)

NextInterleaved ==
    \/ add_connection \/ batch_operations \/ Switch
    \/ GetOk \/ GetFail \/ PushOk \/ PushFail \/ CompensateOk \/ CompensateFail
    \/ RollbackOk \/ RollbackFail

SpecInterleaved == InitInterleaved /\ [][NextInterleaved]_vars

\* The validator alone: validate_workflow_structure applied, MaxEdits times, to
\* a workflow of at most MaxNodes nodes, with or without its required fields
InitValidate ==
    /\ workflow \in
          LET values == {Node(id, name, type, <<0, 0>>) :
                            id \in 0..2, name \in {"", "A"}, type \in {"", "set"}}
              lists == UNION {[1..k -> values] : k \in 0..MaxNodes}
          IN {Workflow(nodes, <<>>) : nodes \in lists}
             \cup {[nodes |-> nodes] : nodes \in lists}
             \cup {[connections |-> <<>>], [name |-> "w"]}
    /\ remote = [w1 |-> EmptyWorkflow, w2 |-> EmptyWorkflow]
    /\ created = <<>>
    /\ pc = "idle"
    /\ tool = ""
    /\ args = <<>>
    /\ subflow_data = EmptyWorkflow
    /\ original_workflow = EmptyWorkflow
    /\ has_original = FALSE
    /\ pending = NoResult
    /\ result = NoResult
    /\ nextId = 10
    /\ calls = MaxEdits
    /\ pre = remote
    /\ failure = NoErr
    /\ checked = FALSE
    /\ writes = <<>>
    /\ base = remote
    /\ peer = NoCall

\* validation = validate_workflow_structure(workflow)
validate ==
    /\ pc \in {"idle", "done"}
    /\ calls > 0
    /\ calls' = calls - 1
    /\ pc' = "done"
    /\ result' = validate_workflow_structure(workflow)
    /\ checked' = result'.valid
    /\ UNCHANGED <<remote, created, tool, args, workflow, subflow_data,
                   original_workflow, has_original, pending, nextId, pre, failure,
                   writes, base, peer>>

SpecValidate == InitValidate /\ [][validate]_vars

\* ------------------------------------------------------- properties
\* The workflow the store held when the invocation started: with no other
\* writer, the workflow the tool fetched and copied
Snapshot == pre[PrimaryId]
Finished == pc = "done"
FinishedFailed == pc = "done" /\ result.status = "failed"
CompensationAccepted ==
    \E i \in DOMAIN writes : writes[i].role = "compensate" /\ writes[i].accepted
CompensationRefused ==
    \E i \in DOMAIN writes : writes[i].role = "compensate" /\ ~writes[i].accepted

\* C1: when n8n_batch_operations returns status "failed" because an operation
\* failed or the final validation failed, and the store accepted the
\* compensating replace, the remote workflow equals the workflow fetched at the
\* start of the batch: no effect of an already-applied operation is visible.
C1_BatchAllOrNothing ==
    (/\ FinishedFailed
     /\ tool = "batch_operations"
     /\ failure.kind \in {"OperationFailed", "ValidationFailed"}
     /\ CompensationAccepted)
    => /\ remote[PrimaryId] = Snapshot
       /\ original_workflow = Snapshot

\* C1: a batch failed at a later operation, after an earlier one had changed
\* the working copy, and its compensating replace was accepted
C1_Witness ==
    /\ FinishedFailed
    /\ tool = "batch_operations"
    /\ failure.kind = "OperationFailed"
    /\ failure.op > 0
    /\ workflow # original_workflow
    /\ CompensationAccepted
    /\ remote[PrimaryId] = Snapshot

\* C2: in every tool that takes a snapshot, a forward replace the store
\* refused is followed by a replace whose payload is the pre-transaction
\* snapshot, the tool returns status "failed", and when the last compensating
\* replace was accepted the remote workflow equals the snapshot.
C2_ForwardFailureCompensated ==
    \A i \in DOMAIN writes :
        (/\ Finished
         /\ tool \in {"insert_node_between", "update_node_parameters", "add_node",
                      "delete_node", "move_node", "add_connection",
                      "remove_connection", "update_connection",
                      "batch_operations", "reorganize_layout", "merge_workflows"}
         /\ writes[i].role = "forward"
         /\ ~writes[i].accepted)
        => /\ result.status = "failed"
           /\ i < Len(writes)
           /\ writes[i + 1].call = "update"
           /\ writes[i + 1].role = "compensate"
           /\ writes[i + 1].payload = Snapshot
           /\ writes[Len(writes)].accepted => remote[PrimaryId] = Snapshot

\* C2: a tool's forward replace was refused after it had taken effect, and the
\* compensating replace put the snapshot back
C2_Witness ==
    /\ FinishedFailed
    /\ tool = "merge_workflows"
    /\ Len(writes) = 2
    /\ writes[1].role = "forward"
    /\ ~writes[1].accepted
    /\ writes[1].applied
    /\ writes[1].payload # Snapshot
    /\ writes[2].role = "compensate"
    /\ writes[2].accepted
    /\ remote[PrimaryId] = Snapshot

\* C3: when a step of an editing tool fails and a compensating replace fails
\* too, the error returned is the original failure; for a batch, the failed
\* operation's index and type together with completed_operations.
C3_OriginalErrorSurfaced ==
    (FinishedFailed /\ failure # NoErr /\ CompensationRefused)
    => /\ result.error = failure
       /\ failure.kind = "OperationFailed" => result.with_completed

\* The index of the first add_connection operation that names a node absent
\* from the working copy the earlier operations left, -1 when an earlier
\* operation fails or there is none
RECURSIVE AbsentConnectionAt(_, _, _)
AbsentConnectionAt(wf, operations, i) ==
    IF i >= Len(operations) THEN -1
    ELSE LET operation == operations[i + 1]
             r == BatchOperation(wf, operation, i, 0)
         IN IF /\ operation.type = "add_connection"
               /\ \/ find_node_by_name(wf, operation.source_node) = 0
                  \/ find_node_by_name(wf, operation.target_node) = 0
            THEN i
            ELSE IF ~r.ok THEN -1
            ELSE AbsentConnectionAt(r.wf, operations, i + 1)

\* C4: in a batch, an add_connection operation whose source or target is
\* absent from the working copy at that point fails with NotFound: the batch
\* returns "failed" with that operation's index, completed_operations holds the
\* success records of the earlier operations, and the remote workflow is the
\* pre-batch snapshot once the compensating replace was accepted.
C4_BatchConnectionToAbsentNodeFails ==
    LET d == AbsentConnectionAt(original_workflow, args.operations, 0)
    IN (Finished /\ tool = "batch_operations" /\ has_original /\ d >= 0)
       => /\ result.status = "failed"
          /\ failure.kind = "OperationFailed"
          /\ failure.op = d
          /\ failure.cause = "NotFound"
          /\ Len(result.records) = d
          /\ CompensationAccepted => remote[PrimaryId] = Snapshot

\* The failures an editor detects by a check of its own
EditorLevelKinds ==
    {"NotFound", "Duplicate", "InvalidArgument", "ValidationFailed",
     "UnknownOperation"}
EditorLevelFailure ==
    \/ failure.kind \in EditorLevelKinds
    \/ failure.kind = "OperationFailed" /\ failure.cause \in EditorLevelKinds

C6_ValidatedBeforeWrite ==
    \A i \in DOMAIN writes :
        writes[i].role = "forward"
        => /\ writes[i].checked
           /\ validate_workflow_structure(writes[i].payload).valid

\* The edges from source s to target t, under any connection type and output
EdgesBetween(connections, s, t) ==
    SelectSeq(EdgeList(connections), LAMBDA e : e.source = s /\ e.target = t)
\* The edges that leave or reach node n
EdgesAt(connections, n) ==
    SelectSeq(EdgeList(connections), LAMBDA e : e.source = n \/ e.target = n)
EdgesAway(connections, n) ==
    SelectSeq(EdgeList(connections), LAMBDA e : e.source # n /\ e.target # n)
AtMostOneEdgePerPair(connections) ==
    \A i, j \in DOMAIN EdgeList(connections) :
        LET edges == EdgeList(connections)
        IN (edges[i].source = edges[j].source /\ edges[i].target = edges[j].target)
           => i = j

\* C7: from workflows with at most one edge per (source, target) pair, after
\* any sequence of add_connection and remove_connection calls with any
\* connection types and output indices, the connection map holds at most one
\* edge from any source to any target.
C7_AtMostOneEdgePerPair ==
    (Finished /\ result.status = "success")
    => AtMostOneEdgePerPair(remote[PrimaryId].connections)

\* C8: add_connection fails with Duplicate, leaves the workflow unchanged and
\* issues no remote write whenever an edge from the source to the target
\* exists in the connection map, whatever type and output index it is stored
\* under and whatever type and indices are requested.
C8_DuplicateWhateverTypeAndIndex ==
    (/\ Finished
     /\ tool = "add_connection"
     /\ has_original
     /\ EdgesBetween(original_workflow.connections, args.source_node_name,
                     args.target_node_name) # <<>>)
    => /\ result.status = "failed"
       /\ failure.kind = "Duplicate"
       /\ writes = <<>>
       /\ remote = pre

\* C9: after delete_node(N) succeeds, with reconnect true or false, the pushed
\* workflow has no node named N, no key N in connections and no edge, under
\* any source, connection type or output index, whose target is N; for the
\* chain A -> N -> B with reconnect true it holds exactly one edge A -> B.
C9_NoReferenceToDeletedNode ==
    (Finished /\ tool = "delete_node" /\ result.status = "success")
    => /\ find_node_by_name(workflow, args.node_name) = 0
       /\ ~DictHas(workflow.connections, args.node_name)
       /\ EdgesAt(workflow.connections, args.node_name) = <<>>
       /\ (/\ original_workflow = WChain
           /\ args.node_name = "N"
           /\ args.reconnect_connections)
          => Len(EdgesBetween(workflow.connections, "A", "B")) = 1

\* C10: delete_node(N, reconnect) adds exactly one edge, of type "main", from
\* the first incoming source of N to the first outgoing target of N, when
\* reconnect is true and N has at least one incoming and at least one outgoing
\* edge; in every other case it adds no edge.
C10_ReconnectAddsOneEdge ==
    (Finished /\ tool = "delete_node" /\ result.status = "success")
    => LET n == args.node_name
           old == EdgeList(original_workflow.connections)
           kept == EdgesAway(original_workflow.connections, n)
           now == EdgesAway(workflow.connections, n)
           incoming == SelectSeq(old, LAMBDA e : e.target = n)
           outgoing == SelectSeq(old, LAMBDA e : e.source = n)
       IN IF args.reconnect_connections /\ incoming # <<>> /\ outgoing # <<>>
          THEN /\ Len(now) = Len(kept) + 1
               /\ \E i \in DOMAIN now :
                     /\ now[i].source = incoming[1].source
                     /\ now[i].target = outgoing[1].target
                     /\ now[i].type = "main"
                     /\ SubSeq(now, 1, i - 1) \o SubSeq(now, i + 1, Len(now)) = kept
          ELSE now = kept

\* The edges of a connection map as a set of
\* [source, target, type, output, index]
EdgeSet(connections) ==
    {EdgeList(connections)[i] : i \in DOMAIN EdgeList(connections)}

\* C11: when insert_node_between(source, target, new node) succeeds, the
\* pushed connection map holds no direct edge source -> target, holds an edge
\* source -> new node and an edge new node -> target, both of type "main" and
\* index 0, and every other edge of the workflow is as it was before.
C11_InsertReplacesEdge ==
    (Finished /\ tool = "insert_node_between" /\ result.status = "success")
    => LET s == args.source_node_name
           t == args.target_node_name
           n == args.new_node_config.name
           old == EdgeSet(original_workflow.connections)
           now == EdgeSet(workflow.connections)
           added == {e \in now : \/ e.source = s /\ e.target = n
                                 \/ e.source = n /\ e.target = t}
       IN /\ EdgesBetween(workflow.connections, s, t) = <<>>
          /\ \E e \in now : /\ e.source = s /\ e.target = n
                            /\ e.type = "main" /\ e.index = 0
          /\ \E e \in now : /\ e.source = n /\ e.target = t
                            /\ e.type = "main" /\ e.index = 0
          /\ now \ added = {e \in old : ~(e.source = s /\ e.target = t)}

\* The edges of a connection map as (source, target, connection type)
EdgeTriples(connections) ==
    {<<e.source, e.target, e.type>> : e \in EdgeSet(connections)}

\* The second invocation of the behaviour is a successful
\* delete_node(new node, reconnect = true) and the first one applied
\* insert_node_between with arguments a to the store
RoundTripOf(a) ==
    LET o == n8n_insert_node_between(base[PrimaryId], a.source_node_name,
                                     a.target_node_name, a.new_node_config, 10)
    IN /\ Finished
       /\ calls = MaxEdits - 2
       /\ tool = "delete_node"
       /\ result.status = "success"
       /\ args.node_name = a.new_node_config.name
       /\ args.reconnect_connections
       /\ o.out = "push"
       /\ Snapshot = o.wf

\* C12: for any workflow with an edge A -> B, insert_node_between(A, B, N)
\* followed by delete_node(N, reconnect = true) yields a connection map with
\* the same set of edges (source, target, connection type) as the original.
C12_InsertThenDeleteRestoresEdges ==
    \A a \in InsertArgs :
        RoundTripOf(a)
        => EdgeTriples(remote[PrimaryId].connections)
             = EdgeTriples(base[PrimaryId].connections)

\* Node ids are pairwise distinct and node names are pairwise distinct
DistinctIdsAndNames(wf) ==
    \A i, j \in DOMAIN wf.nodes :
        (wf.nodes[i].id = wf.nodes[j].id \/ wf.nodes[i].name = wf.nodes[j].name)
        => i = j

\* C13: from a workflow with pairwise distinct node ids and pairwise distinct
\* node names, a successful add_node, insert_node_between, delete_node,
\* batch or merge pushes a workflow that still has pairwise distinct node ids
\* and pairwise distinct node names.
C13_IdsAndNamesStayDistinct ==
    (/\ Finished
     /\ result.status = "success"
     /\ tool \in {"add_node", "insert_node_between", "delete_node",
                  "batch_operations", "merge_workflows"}
     /\ DistinctIdsAndNames(original_workflow))
    => DistinctIdsAndNames(workflow)

\* Every connection source key and every edge target names a node
ReferencesResolve(wf) ==
    /\ \A i \in DOMAIN wf.connections : wf.connections[i].key \in NodeNames(wf)
    /\ \A e \in EdgeSet(wf.connections) : e.target \in NodeNames(wf)

\* C14: from a workflow in which every connection source key and every edge
\* target names an existing node, a successful add_node, insert_node_between,
\* delete_node, add_connection, remove_connection, update_connection, batch,
\* create_subflow or merge pushes a workflow in which every connection source
\* key and every edge target still names a node of that workflow.
C14_ReferencesStayResolved ==
    (/\ Finished
     /\ result.status = "success"
     /\ tool \in {"add_node", "insert_node_between", "delete_node",
                  "add_connection", "remove_connection", "update_connection",
                  "batch_operations", "create_subflow", "merge_workflows"}
     /\ ReferencesResolve(Snapshot))
    => ReferencesResolve(workflow)

\* A merge finished with status "success"
MergeSucceeded ==
    Finished /\ tool = "merge_workflows" /\ result.status = "success"
\* The secondary workflow of the merge, and the number of primary nodes
Secondary == pre[SecondaryId]
PrimaryCount == Len(original_workflow.nodes)
\* The name the copy of the i-th secondary node carries in the merged workflow
CopyName(i) == workflow.nodes[PrimaryCount + i].name
\* The names of the merged nodes that precede the copy of the i-th one
NamesBefore(i) == {workflow.nodes[j].name : j \in 1..(PrimaryCount + i - 1)}
\* The name given to the copy of the secondary node named name (secondary
\* names being pairwise distinct)
NewNameOf(name) ==
    IF \E i \in DOMAIN Secondary.nodes : Secondary.nodes[i].name = name
    THEN CopyName(CHOOSE i \in DOMAIN Secondary.nodes : Secondary.nodes[i].name = name)
    ELSE name
\* The secondary edges with both ends renamed
RenamedSecondaryEdges ==
    {[e EXCEPT !.source = NewNameOf(e.source), !.target = NewNameOf(e.target)] :
        e \in EdgeSet(Secondary.connections)}
CopyNames == {CopyName(i) : i \in DOMAIN Secondary.nodes}

\* C15: a merge keeps the name of a secondary node that collides with no name
\* already in the merged result and otherwise appends " (k)" with the
\* smallest k that makes the name unique, so all names of the merged workflow
\* are distinct; every secondary connection source key and edge target reads
\* the new name of the node it referenced, and the primary edges are as they
\* were.
C15_MergeRenamesCollidingNodes ==
    MergeSucceeded
    => /\ Len(workflow.nodes) = PrimaryCount + Len(Secondary.nodes)
       /\ \A i \in DOMAIN Secondary.nodes :
             LET name == Secondary.nodes[i].name
                 suffixed(k) == name \o " (" \o ToString(k) \o ")"
             IN IF name \notin NamesBefore(i) THEN CopyName(i) = name
                ELSE \E k \in 1..(PrimaryCount + i) :
                        /\ CopyName(i) = suffixed(k)
                        /\ suffixed(k) \notin NamesBefore(i)
                        /\ \A j \in 1..(k - 1) : suffixed(j) \in NamesBefore(i)
       /\ \A i, j \in DOMAIN workflow.nodes :
             workflow.nodes[i].name = workflow.nodes[j].name => i = j
       /\ {e \in EdgeSet(workflow.connections) : e.source \in CopyNames}
            = RenamedSecondaryEdges
       /\ {workflow.connections[i].key : i \in DOMAIN workflow.connections}
            \cap CopyNames
            = {NewNameOf(Secondary.connections[i].key) :
                  i \in DOMAIN Secondary.connections}
       /\ {e \in EdgeSet(workflow.connections) :
              e.source \notin CopyNames /\ e.target \notin CopyNames}
            = EdgeSet(original_workflow.connections)

\* C15: a merge succeeded in which a secondary node got a counter above 1 and
\* a secondary edge was rewritten to the new names of both its ends
C15_Witness ==
    /\ MergeSucceeded
    /\ original_workflow = WNamed
    /\ Secondary = WSecondaryNames
    /\ CopyName(1) = "A (2)"
    /\ CopyName(2) = "A (1) (1)"
    /\ \E e \in EdgeSet(workflow.connections) :
          e.source = "A (2)" /\ e.target = "A (1) (1)"
    /\ remote[PrimaryId] = workflow

\* The primary nodes, in order, that no primary edge leaves
PrimaryEndingNodes ==
    SelectSeq(original_workflow.nodes,
              LAMBDA n : \A e \in EdgeSet(original_workflow.connections) :
                            e.source # n.name)
\* The copies, in order, that no rewritten secondary edge reaches
SecondaryStartingNodes ==
    SelectSeq(SubSeq(workflow.nodes, PrimaryCount + 1, Len(workflow.nodes)),
              LAMBDA n : \A e \in RenamedSecondaryEdges : e.target # n.name)
\* The edges of the merged workflow from a primary node to a copy
CrossEdges ==
    SelectSeq(EdgeList(workflow.connections),
              LAMBDA e : e.source \in NodeNames(original_workflow)
                         /\ e.target \in CopyNames)

\* C16: a merge with strategy "connect" adds exactly one edge between the two
\* workflows, from the first primary node with no outgoing edge to the first
\* copy with no incoming edge among the rewritten secondary connections, when
\* there is such a primary node and such a copy, and none otherwise; the
\* strategies "append" and "overlay" add no edge between primary and copies.
C16_ConnectAddsOneCrossEdge ==
    MergeSucceeded
    => IF /\ args.merge_strategy = "connect"
          /\ PrimaryEndingNodes # <<>>
          /\ SecondaryStartingNodes # <<>>
       THEN /\ Len(CrossEdges) = 1
            /\ CrossEdges[1].source = PrimaryEndingNodes[1].name
            /\ CrossEdges[1].target = SecondaryStartingNodes[1].name
            /\ CrossEdges[1].type = "main"
       ELSE CrossEdges = <<>>

\* C16: a "connect" merge joined the end of the primary to the start of the
\* secondary, whose first node had been renamed
C16_Witness ==
    /\ MergeSucceeded
    /\ args.merge_strategy = "connect"
    /\ original_workflow = WChain
    /\ Secondary = WSecondary
    /\ Len(CrossEdges) = 1
    /\ CrossEdges[1].source = "B"
    /\ CrossEdges[1].target = "A (1)"

\* C17: a merge called with a strategy other than "append", "overlay" or
\* "connect" fails with InvalidArgument and issues no remote write to either
\* workflow (both workflows having been fetched).
C17_UnknownStrategyRejected ==
    (/\ Finished
     /\ tool = "merge_workflows"
     /\ has_original
     /\ args.merge_strategy \notin {"append", "overlay", "connect"})
    => /\ result.status = "failed"
       /\ failure.kind = "InvalidArgument"
       /\ writes = <<>>
       /\ remote = pre

\* The edges from source s to target t of connection type c
EdgesOfType(connections, s, t, c) ==
    SelectSeq(EdgesBetween(connections, s, t), LAMBDA e : e.type = c)

\* No empty output array, no empty type map and no source without edges
NoEmptyContainer(source_connections) ==
    /\ source_connections # <<>>
    /\ \A t \in DOMAIN source_connections :
          /\ source_connections[t].val # <<>>
          /\ \A a \in DOMAIN source_connections[t].val :
                source_connections[t].val[a] # <<>>

\* C18: remove_connection(source, target, type) fails with NotFound and
\* without a remote write when no edge source -> target of that type exists;
\* when it succeeds the edge is gone and the source's connection map holds no
\* empty output array and no empty type map, the source key being absent when
\* the source has no edge left.
C18_RemoveConnection ==
    (Finished /\ tool = "remove_connection" /\ has_original)
    => LET s == args.source_node_name
           t == args.target_node_name
           c == args.connection_type
       IN /\ EdgesOfType(original_workflow.connections, s, t, c) = <<>>
             => /\ result.status = "failed"
                /\ failure.kind = "NotFound"
                /\ writes = <<>>
                /\ remote = pre
          /\ result.status = "success"
             => /\ EdgesOfType(workflow.connections, s, t, c) = <<>>
                /\ DictHas(workflow.connections, s)
                   => NoEmptyContainer(DictGet(workflow.connections, s))

\* C19: when update_connection(source, old target, new target, type)
\* succeeds, one existing edge source -> old target of that type now leads to
\* the new target with its connection type, output index and input index
\* kept, and no other edge changed; it fails with NotFound and without a
\* remote write when no edge source -> old target of that type exists (the
\* stored workflow being one the validator accepts).
C19_UpdateConnectionRetargets ==
    (/\ Finished
     /\ tool = "update_connection"
     /\ has_original
     /\ validate_workflow_structure(original_workflow).valid)
    => LET s == args.source_node_name
           t == args.target_node_name
           c == args.connection_type
           old == EdgeList(original_workflow.connections)
           now == EdgeList(workflow.connections)
       IN /\ EdgesOfType(original_workflow.connections, s, t, c) = <<>>
             => /\ result.status = "failed"
                /\ failure.kind = "NotFound"
                /\ writes = <<>>
                /\ remote = pre
          /\ result.status = "success"
             => \E i \in DOMAIN old :
                   /\ old[i].source = s /\ old[i].target = t /\ old[i].type = c
                   /\ now = [old EXCEPT ![i].target = args.new_target_node_name]

\* The place the spec gives a node added without a position to a workflow
\* holding nodes: [200, 300] for none, else the largest x plus 300 and the
\* average y rounded down
ExpectedPlace(nodes) ==
    IF nodes = <<>> THEN <<200, 300>>
    ELSE LET xs == {nodes[i].position[1] : i \in DOMAIN nodes}
             ys == ListOf([i \in DOMAIN nodes |-> nodes[i].position[2]])
             max_x == CHOOSE x \in xs : \A y \in xs : y <= x
             avg_y == CHOOSE q \in -1000..1000 :
                         /\ q * Len(nodes) <= SeqSum(ys)
                         /\ SeqSum(ys) < (q + 1) * Len(nodes)
         IN <<max_x + 300, avg_y>>

\* A batch made of add_node operations without a position
OnlyUnplacedAdditions(operations) ==
    \A k \in DOMAIN operations :
        operations[k].type = "add_node" /\ operations[k].position = PosNone

\* C20: add_node without a position places the new node at [200, 300] in a
\* workflow without nodes and otherwise at [largest existing x + 300, integer
\* average of the existing y], as the standalone tool and as an add_node
\* operation of a batch, where the nodes added by earlier operations of the
\* batch count as existing.
C20_AutoPosition ==
    LET n == Len(original_workflow.nodes)
    IN /\ (/\ Finished /\ tool = "add_node" /\ result.status = "success"
           /\ args.position = <<>>)
          => workflow.nodes[n + 1].position = ExpectedPlace(original_workflow.nodes)
       /\ (/\ Finished /\ tool = "batch_operations" /\ result.status = "success"
           /\ OnlyUnplacedAdditions(args.operations))
          => \A k \in DOMAIN args.operations :
                workflow.nodes[n + k].position
                  = ExpectedPlace(SubSeq(workflow.nodes, 1, n + k - 1))

\* C20: a batch added two nodes without a position to nodes at x = 100, 400,
\* 700: the first went to x = 1000, the second to the right of the first
C20_Witness ==
    /\ Finished
    /\ tool = "batch_operations"
    /\ result.status = "success"
    /\ original_workflow = WChain
    /\ Len(args.operations) = 2
    /\ OnlyUnplacedAdditions(args.operations)
    /\ workflow.nodes[4].position = <<1000, 266>>
    /\ workflow.nodes[5].position = <<1300, 266>>
    /\ remote[PrimaryId] = workflow

\* ------------------------------------------------------- C21 .. C30
\* The tools that take a numeric pair, and the argument that holds it
PairTools == {"add_node", "move_node", "reorganize_layout", "merge_workflows"}
PairField(t) ==
    CASE t = "add_node" -> "position"
      [] t = "move_node" -> "new_position"
      [] t = "reorganize_layout" -> "start_position"
      [] t = "merge_workflows" -> "position_offset"

\* The JSON text of a list of integers, for the lists the callers pass
TextOf(v) ==
    CASE v = <<500, 100>> -> "[500, 100]"
      [] v = <<0, 0>> -> "[0, 0]"
      [] v = <<0, 500>> -> "[0, 500]"
      [] v = <<500>> -> "[500]"
      [] v = <<500, 100, 7>> -> "[500, 100, 7]"

\* The invocation that just succeeded was given list v (natively or as a
\* text) and worked with it
AcceptedList(v) ==
    /\ tool \in PairTools
    /\ pc = "done"
    /\ result.status = "success"
    /\ v = args[PairField(tool)]
    /\ v # <<>>

\* C21: a tool that takes a numeric pair (add_node, move_node,
\* reorganize_layout, merge_workflows) succeeds with a list only if the list is
\* a pair of two integers, and then accepts the native list and its text
\* alike, with the same converted value; so no value that is not a pair gets
\* past move_node, native or textual
C21_PairArgumentsNormalised ==
    \A v \in {args[PairField(t)] : t \in {tool} \cap PairTools} :
        AcceptedList(v) =>
            LET native == ConvertArgs(tool, [args EXCEPT ![PairField(tool)] = PosList(v)])
                text == ConvertArgs(tool, [args EXCEPT ![PairField(tool)] = PosStr(TextOf(v))])
            IN /\ Len(v) = 2
               /\ native.ok /\ native.args = args
               /\ text.ok /\ text.args = args

\* The place of an entry in the order the validator reports in
Rank(e) ==
    CASE e.err = "missing nodes" -> 0
      [] e.err = "missing connections" -> 1
      [] e.err = "duplicate node ids" -> 2
      [] e.err = "missing id" -> 3 + 3 * e.node
      [] e.err = "missing type" -> 4 + 3 * e.node
      [] e.err = "missing name" -> 5 + 3 * e.node

\* Every violation of the validated workflow, as a set of entries
Violations ==
    LET nodes == IF "nodes" \in DOMAIN workflow THEN workflow.nodes ELSE <<>>
    IN {[err |-> "missing nodes", node |-> -1] : x \in {"nodes"} \ DOMAIN workflow}
       \cup {[err |-> "missing connections", node |-> -1] :
                x \in {"connections"} \ DOMAIN workflow}
       \cup {[err |-> "duplicate node ids", node |-> -1] :
                p \in {q \in (DOMAIN nodes) \X (DOMAIN nodes) :
                          q[1] < q[2] /\ nodes[q[1]].id = nodes[q[2]].id}}
       \cup {[err |-> "missing id", node |-> i - 1] :
                i \in {j \in DOMAIN nodes : nodes[j].id = 0}}
       \cup {[err |-> "missing type", node |-> i - 1] :
                i \in {j \in DOMAIN nodes : nodes[j].type = ""}}
       \cup {[err |-> "missing name", node |-> i - 1] :
                i \in {j \in DOMAIN nodes : nodes[j].name = ""}}

Validated == pc = "done" /\ tool = ""

\* C22: validate_workflow_structure reports every violation, each once and in
\* the order missing nodes, missing connections, duplicate ids, then node by
\* node its empty id, type and name; valid is true exactly when nothing is
\* reported. The workflow determines the report, so validating again gives
\* the same result
C22_ValidatorCollectsEveryError ==
    Validated =>
        /\ {result.errors[i] : i \in DOMAIN result.errors} = Violations
        /\ \A i, j \in DOMAIN result.errors :
              i < j => Rank(result.errors[i]) < Rank(result.errors[j])
        /\ result.valid = (result.errors = <<>>)
        /\ result.valid = (Violations = {})

\* A workflow with several violations at once has been validated, twice
C22_Witness ==
    /\ Validated
    /\ calls = MaxEdits - 2
    /\ "connections" \notin DOMAIN workflow
    /\ Len(result.errors) >= 5
    /\ \E i \in DOMAIN result.errors : result.errors[i].err = "duplicate node ids"

\* Two edges of the connection map with the same source, target and type
HasDuplicateEdge(connections) ==
    LET edges == EdgeList(connections)
    IN \E i, j \in DOMAIN edges :
          /\ i < j
          /\ edges[i].source = edges[j].source
          /\ edges[i].target = edges[j].target
          /\ edges[i].type = edges[j].type

\* C23: validate_workflow_structure never finds valid a workflow whose
\* connection map holds two edges with the same source, target and type, so no
\* tool sends a replace whose validated payload holds a duplicate edge
C23_ValidatorRejectsDuplicateEdge ==
    /\ checked => ~HasDuplicateEdge(workflow.connections)
    /\ \A i \in DOMAIN writes :
          (writes[i].role = "forward" /\ writes[i].checked)
          => ~HasDuplicateEdge(writes[i].payload.connections)

\* n8n_create_subflow has partitioned the fetched workflow and awaits a write
Partitioned == tool = "create_subflow" /\ pc \in {"create", "push"}

\* The edges of the fetched workflow whose source is inside (or outside) the
\* selection and whose target is on the same side
EdgesWithin(inside) ==
    {e \in EdgeSet(Snapshot.connections) :
        /\ (e.source \in args.node_names) = inside
        /\ (e.target \in args.node_names) = inside}

\* C24: n8n_create_subflow partitions the fetched workflow: the extracted
\* nodes are the nodes named in node_names, the remaining nodes are all the
\* others, in the order they had; an extracted source keeps exactly its edges
\* (type, output port, target, input port) to extracted targets, a remaining
\* source exactly its edges to remaining targets, and nothing else is added;
\* when no node is named it fails with EmptySelection and writes nothing
C24_SubflowPartitions ==
    /\ Partitioned =>
          /\ workflow.nodes = SelectSeq(Snapshot.nodes,
                                        LAMBDA n : n.name \notin args.node_names)
          /\ EdgeSet(workflow.connections) = EdgesWithin(FALSE)
          /\ args.extract_to_new_workflow =>
                /\ NodeNames(subflow_data)
                   = NodeNames(Snapshot) \cap args.node_names
                /\ Len(subflow_data.nodes) + Len(workflow.nodes) = Len(Snapshot.nodes)
                /\ EdgeSet(subflow_data.connections) = EdgesWithin(TRUE)
    /\ (Finished /\ tool = "create_subflow" /\ failure.kind # "RemoteFailure"
        /\ NodeNames(Snapshot) \cap args.node_names = {})
       => /\ result.status = "failed"
          /\ failure.kind = "EmptySelection"
          /\ writes = <<>>
          /\ remote = pre

\* The newly created workflows the store holds
CreatedNow == Len(created)

\* C25: n8n_create_subflow is all-or-nothing across create_workflow and
\* update_workflow: when the create is accepted and the following replace of
\* the source is refused, the tool reports failure and the store is as before
\* the call, with no new workflow left; and the source never loses the
\* extracted nodes unless a workflow created by this call holds them
C25_SubflowAllOrNothing ==
    (Finished /\ tool = "create_subflow") =>
        /\ (/\ \E i \in DOMAIN writes : writes[i].call = "create" /\ writes[i].accepted
            /\ \E i \in DOMAIN writes : writes[i].call = "update" /\ ~writes[i].accepted)
           => /\ result.status = "failed"
              /\ remote = pre
              /\ \A i \in DOMAIN writes : writes[i].call = "create" => ~writes[i].applied
        /\ remote[PrimaryId].nodes # Snapshot.nodes
           => \E i \in DOMAIN writes :
                 /\ writes[i].call = "create"
                 /\ writes[i].applied
                 /\ NodeNames(writes[i].payload)
                    = NodeNames(Snapshot) \ NodeNames(remote[PrimaryId])

\* The layout tool has fetched the workflow and run its local code, and no
\* remote call of this invocation has failed
LaidOut(layout_type) ==
    /\ tool = "reorganize_layout"
    /\ args.layout_type = layout_type
    /\ has_original
    /\ failure.kind # "RemoteFailure"

\* The start of a layout: the argument, or [200, 200] when it is absent
LayoutStart == IF args.start_position = <<>> THEN <<200, 200>> ELSE args.start_position

\* floor(sqrt(n)) for n >= 1
Columns(n) == CHOOSE c \in 1..n : c * c <= n /\ (c + 1) * (c + 1) > n

\* C26: on a structurally valid workflow with n >= 1 nodes, whatever its
\* connection map holds, layout "grid" succeeds and puts the node at list
\* index i at start + (col * spacing, row * spacing), with
\* columns = max(1, floor(sqrt(n))), row = i div columns, col = i mod columns
C26_GridLayout ==
    (/\ LaidOut("grid")
     /\ Len(Snapshot.nodes) >= 1
     /\ validate_workflow_structure(Snapshot).valid)
    => /\ failure = NoErr
       /\ Len(workflow.nodes) = Len(Snapshot.nodes)
       /\ \A k \in DOMAIN workflow.nodes :
             LET columns == Columns(Len(Snapshot.nodes))
                 i == k - 1
             IN workflow.nodes[k].position
                = <<LayoutStart[1] + (i % columns) * args.spacing,
                    LayoutStart[2] + (i \div columns) * args.spacing>>
       /\ Finished => (result.status = "success" /\ remote[PrimaryId] = workflow)

\* The sources of the edges into node n, and the nodes n leads to directly
Predecessors(wf, n) == {e.source : e \in {d \in EdgeSet(wf.connections) : d.target = n}}
Successors(wf, S) == {e.target : e \in {d \in EdgeSet(wf.connections) : d.source \in S}}

\* The nodes reached from the set S by one edge or more
RECURSIVE ReachedFrom(_, _, _)
ReachedFrom(wf, S, seen) ==
    LET next == Successors(wf, S) \ seen
    IN IF next = {} THEN seen ELSE ReachedFrom(wf, next, seen \cup next)

OnCycle(wf, n) == n \in ReachedFrom(wf, {n}, {})

\* A graph on the workflow's nodes without a cycle
Acyclic(wf) ==
    /\ ReferencesResolve(wf)
    /\ \A n \in NodeNames(wf) : ~OnCycle(wf, n)

\* The level of a node of an acyclic workflow
RECURSIVE Level(_, _)
Level(wf, n) ==
    IF Predecessors(wf, n) = {} THEN 0
    ELSE LET below == {Level(wf, p) : p \in Predecessors(wf, n)}
         IN 1 + CHOOSE m \in below : \A k \in below : k <= m

\* Where a layout put the node of that name, in units of spacing from the start
LayoutColumn(name) ==
    LET node == workflow.nodes[CHOOSE k \in DOMAIN workflow.nodes :
                                  workflow.nodes[k].name = name]
    IN (node.position[1] - LayoutStart[1]) \div args.spacing
LayoutRow(name) ==
    LET node == workflow.nodes[CHOOSE k \in DOMAIN workflow.nodes :
                                  workflow.nodes[k].name = name]
    IN (node.position[2] - LayoutStart[2]) \div args.spacing

\* When the flow layout discovered node n: with the last of its incoming
\* edges, edges being followed source by source in the order of the placed
\* sources and, for one source, in the order of the connection map
Discovery(n) ==
    LET edges == EdgeList(Snapshot.connections)
        times == {LayoutColumn(edges[k].source) * 10000
                  + LayoutRow(edges[k].source) * 100 + k :
                     k \in {j \in DOMAIN edges : edges[j].target = n}}
    IN CHOOSE t \in times : \A u \in times : u <= t

\* C27: on an acyclic workflow, layout "flow" places every node: a node
\* without incoming edge on level 0, any other node one level above the
\* highest of its predecessors, at start + (level * spacing, index within the
\* level * spacing); the nodes of a level are numbered from 0 in the order of
\* their discovery (level 0: the order of the node list), so that no two nodes
\* get the same position
C27_FlowLayoutLevels ==
    (/\ LaidOut("flow")
     /\ Acyclic(Snapshot)
     /\ validate_workflow_structure(Snapshot).valid
     /\ Snapshot.nodes # <<>>)
    => /\ failure = NoErr
       /\ Len(workflow.nodes) = Len(Snapshot.nodes)
       /\ \A k \in DOMAIN workflow.nodes :
             LET node == workflow.nodes[k]
             IN /\ node.name = Snapshot.nodes[k].name
                /\ node.position
                   = <<LayoutStart[1] + Level(Snapshot, node.name) * args.spacing,
                       LayoutStart[2] + LayoutRow(node.name) * args.spacing>>
                /\ LayoutRow(node.name)
                   = Cardinality({m \in NodeNames(Snapshot) :
                        /\ Level(Snapshot, m) = Level(Snapshot, node.name)
                        /\ LayoutRow(m) < LayoutRow(node.name)})
       /\ \A k, l \in DOMAIN workflow.nodes :
             LET m == workflow.nodes[k].name
                 n == workflow.nodes[l].name
             IN (Level(Snapshot, m) = Level(Snapshot, n) /\ LayoutRow(m) < LayoutRow(n))
                => IF Level(Snapshot, m) = 0 THEN k < l
                   ELSE Discovery(m) < Discovery(n)
       /\ \A k, l \in DOMAIN workflow.nodes :
             k # l => workflow.nodes[k].position # workflow.nodes[l].position
       /\ \A e \in EdgeSet(Snapshot.connections) :
             LayoutColumn(e.source) < LayoutColumn(e.target)
       /\ Finished => (result.status = "success" /\ remote[PrimaryId] = workflow)

\* A flow layout of the four-node workflow was stored: D, which A reaches
\* directly and through both B and N, is on level 2; B, discovered before N,
\* is above it on level 1
C27_Witness ==
    /\ LaidOut("flow")
    /\ Finished
    /\ result.status = "success"
    /\ Snapshot = WDiamond
    /\ LayoutColumn("D") = 2
    /\ LayoutColumn("B") = 1 /\ LayoutColumn("N") = 1
    /\ LayoutRow("B") = 0 /\ LayoutRow("N") = 1

\* The nodes of the fetched workflow that lie on a cycle
CycleNodes == {n \in NodeNames(Snapshot) : OnCycle(Snapshot, n)}

\* The nodes whose in-degree never reaches zero: those on a cycle and those a
\* cycle leads to
Stuck == CycleNodes \cup ReachedFrom(Snapshot, CycleNodes, {})

\* The nodes reached from a node without incoming edge along nodes that are on
\* no cycle
RECURSIVE ReachedAround(_)
ReachedAround(seen) ==
    LET next == (Successors(Snapshot, seen) \ CycleNodes) \ seen
    IN IF next = {} THEN seen ELSE ReachedAround(seen \cup next)

\* The nodes on a cycle and the nodes reached only through a cycle
OnlyThroughCycle ==
    CycleNodes
    \cup (ReachedFrom(Snapshot, CycleNodes, {})
          \ ReachedAround({n \in NodeNames(Snapshot) : Predecessors(Snapshot, n) = {}}))

\* The flow layout of a workflow with a cycle leaves exactly the nodes of
\* skipped where they were and out of moved_nodes, places the others by
\* level, and is stored with status "success"
FlowLayoutSkips(skipped) ==
    (/\ LaidOut("flow")
     /\ ReferencesResolve(Snapshot)
     /\ CycleNodes # {}
     /\ validate_workflow_structure(Snapshot).valid)
    => /\ failure = NoErr
       /\ Len(workflow.nodes) = Len(Snapshot.nodes)
       /\ {pending.records[i].name : i \in DOMAIN pending.records}
          = NodeNames(Snapshot) \ skipped
       /\ \A k \in DOMAIN workflow.nodes :
             IF Snapshot.nodes[k].name \in skipped
             THEN workflow.nodes[k] = Snapshot.nodes[k]
             ELSE /\ LayoutColumn(workflow.nodes[k].name)
                     = Level(Snapshot, workflow.nodes[k].name)
                  /\ workflow.nodes[k].position
                     = <<LayoutStart[1] + LayoutColumn(workflow.nodes[k].name) * args.spacing,
                         LayoutStart[2] + LayoutRow(workflow.nodes[k].name) * args.spacing>>
       /\ Finished => /\ result.status = "success"
                      /\ result.records = pending.records
                      /\ remote[PrimaryId] = workflow

\* C28 as stated: on a workflow with a cycle, layout "flow" reports success
\* and pushes the workflow; exactly the nodes on a cycle or reachable only
\* through one are not placed, keep their positions and are not in moved_nodes
C28_FlowLayoutSkipsOnlyThroughCycle == FlowLayoutSkips(OnlyThroughCycle)

\* C28, amended: on a workflow with a cycle, layout "flow" reports success and
\* pushes the workflow; exactly the nodes whose in-degree never reaches zero,
\* that is the nodes on a cycle and every node a cycle leads to (whether or
\* not another path reaches it), are not placed, keep their positions and are
\* not in moved_nodes
C28_FlowLayoutSkipsStuckNodes == FlowLayoutSkips(Stuck)

\* A flow layout of A -> (N <-> B), A -> D, B -> D was stored: only A was
\* placed; D, which A reaches directly, was not
C28_Witness ==
    /\ LaidOut("flow")
    /\ Finished
    /\ result.status = "success"
    /\ Snapshot = WLoop
    /\ Len(result.records) = 1
    /\ result.records[1].name = "A"
    /\ remote[PrimaryId].nodes[4] = WLoop.nodes[4]
    /\ "D" \in Stuck \ OnlyThroughCycle

\* C29: once the workflow is fetched, layout fails with InvalidArgument and
\* issues no remote write when the layout type is not "grid", "flow" or
\* "circular", or when the workflow has no nodes
C29_LayoutRejectsBadArguments ==
    (/\ tool = "reorganize_layout"
     /\ has_original
     /\ \/ args.layout_type \notin {"grid", "flow", "circular"}
        \/ Snapshot.nodes = <<>>)
    => /\ failure.kind = "InvalidArgument"
       /\ writes = <<>>
       /\ pc = "done"
       /\ result.status = "failed"
       /\ remote = pre

\* What a tool hands back: a status, and an error when the status is "failed"
ResultReturned ==
    /\ result.status \in {"success", "failed"}
    /\ result.status = "failed" => result.error.kind # "None"
    /\ result.status = "success" => result.error = NoErr

\* How far a tool is from its return: the awaits of a tool come in this order
Remaining(at) ==
    CASE at = "get" -> 6
      [] at = "get2" -> 5
      [] at = "create" -> 4
      [] at = "push" -> 3
      [] at = "compensate" -> 2
      [] at = "rollback" -> 1
      [] at = "done" -> 0

\* C30: whatever the store answers to each get, create, replace and
\* compensating replace, an invoked tool is waiting for the store or has
\* returned a result whose status is "success" or "failed", with an error when
\* it is "failed"; every answer of the store, accepting or refusing, takes the
\* tool to a later await or to its return, never out of the tool by an
\* exception; and after the return the server is idle for the next call
C30_EveryInvocationReturns ==
    /\ [](pc \in {"idle", "get", "get2", "create", "push", "compensate",
                  "rollback", "done"})
    /\ [](Finished => ResultReturned)
    /\ [][/\ pc \notin {"idle", "done"}
             => (/\ pc' \in {"get2", "create", "push", "compensate", "rollback", "done"}
                 /\ Remaining(pc') < Remaining(pc))
          /\ pc = "idle" => (pc' = "get" \/ (Finished' /\ ResultReturned'))
          /\ Finished => pc' = "idle"]_vars

\* A batch whose operation failed, whose compensating replace was refused and
\* whose rollback in the outer handler was refused too, has returned "failed"
C30_Witness ==
    /\ Finished
    /\ tool = "batch_operations"
    /\ result.status = "failed"
    /\ result.error.kind # "None"
    /\ Len(writes) = 2
    /\ \A i \in DOMAIN writes : writes[i].role = "compensate" /\ ~writes[i].accepted


\* ------------------------------------------------------- C31 .. C40
\* The editor of call c got as far as its replace, and the store refused
\* none of c's requests
Unhindered(c) ==
    /\ c.has_original
    /\ LocalStep(c.tool, c.args, c.original_workflow, 0).out = "push"
    /\ c.failure.kind # "RemoteFailure"

\* Both calls have returned and both had fetched the same workflow, the one
\* stored before either replaced it; the running call replaced it last
BothFetchedFirst ==
    /\ pc = "done"
    /\ peer.pc = "done"
    /\ Unhindered(Running)
    /\ Unhindered(peer)
    /\ original_workflow = base[PrimaryId]
    /\ peer.original_workflow = base[PrimaryId]

\* C31: when two callers edit the same workflow id and both fetch before
\* either replaces, no conflict is detected: both calls report success, and
\* the stored workflow ends equal to the payload of the later replace, which
\* is the later caller's edit of the fetched workflow alone, so the earlier
\* caller's edit is lost.
C31_LastWriteWins ==
    BothFetchedFirst =>
        /\ result.status = "success"
        /\ peer.result.status = "success"
        /\ remote[PrimaryId] = workflow
        /\ workflow = LocalStep(tool, args, base[PrimaryId], 0).wf
        /\ writes = <<Write("update", "forward", workflow, TRUE, TRUE)>>

\* Both callers added an edge, and the earlier one is not stored
C31_Witness ==
    /\ BothFetchedFirst
    /\ result.status = "success"
    /\ peer.result.status = "success"
    /\ peer.tool = "add_connection"
    /\ tool = "add_connection"
    /\ peer.workflow # peer.original_workflow
    /\ remote[PrimaryId] # peer.workflow
    /\ ~ EdgeSet(peer.workflow.connections) \subseteq EdgeSet(remote[PrimaryId].connections)


\* The node that a successful insert_node_between appended
Inserted == workflow.nodes[Len(workflow.nodes)]

\* The nodes the insertion found under the names it was given
InsertSource == Snapshot.nodes[find_node_by_name(Snapshot, args.source_node_name)]
InsertTarget == Snapshot.nodes[find_node_by_name(Snapshot, args.target_node_name)]

\* C32: insert_node_between places the new node at the integer midpoint of
\* the source's and the target's positions, and at [300, 200] whenever the
\* source node or the target node has no position.
C32_InsertAtMidpoint ==
    (Finished /\ tool = "insert_node_between" /\ result.status = "success")
    => Inserted.position =
          IF InsertSource.position = <<>> \/ InsertTarget.position = <<>>
          THEN <<300, 200>>
          ELSE <<(InsertSource.position[1] + InsertTarget.position[1]) \div 2,
                 (InsertSource.position[2] + InsertTarget.position[2]) \div 2>>

\* The compensating replaces this invocation has issued so far
Compensations == SelectSeq(writes, LAMBDA w : w.role = "compensate")

\* C33: compensation is never retried: an editing transaction, a batch whose
\* operation fails included, issues at most one compensating replace carrying
\* the snapshot, whether or not the store accepts it.
C33_CompensationNotRetried ==
    /\ Len(Compensations) <= 1
    /\ \A i \in DOMAIN Compensations : Compensations[i].payload = Snapshot

\* C34: in every batch result, of a success or of a failure, the k-th
\* operation record carries the position k of its operation in the submitted
\* list and the operation's type, whatever that type is, and the failure
\* names the position of the operation that failed.
C34_RecordsCarryPositions ==
    (Finished /\ tool = "batch_operations")
    => /\ \A k \in DOMAIN result.records :
             /\ result.records[k].operation = k - 1
             /\ result.records[k].type = args.operations[k].type
       /\ result.error.kind = "OperationFailed"
             => /\ result.error.op = Len(result.records)
                /\ result.error.optype = args.operations[result.error.op + 1].type

\* The standalone tool that corresponds to a batch operation, called with the
\* operation's arguments (and the tool's defaults for the others) on
\* workflow wf
Standalone(operation, wf, id) ==
    CASE operation.type = "add_node" ->
           LET p == convert_position(operation.position)
           IN IF ~p.ok THEN ReturnOut(wf, "InvalidArgument")
              ELSE n8n_add_node(wf, operation.node_config, p.val, "", id)
      [] operation.type = "delete_node" ->
           n8n_delete_node(wf, operation.node_name, TRUE)
      [] operation.type = "add_connection" ->
           n8n_add_connection(wf, operation.source_node, operation.target_node,
                              operation.connection_type, 0, 0)
      [] operation.type = "move_node" ->
           LET p == convert_new_position(operation.position)
           IN IF ~p.ok THEN ReturnOut(wf, "InvalidArgument")
              ELSE n8n_move_node(wf, operation.node_name, p.val)

\* A batch of one operation of type t has run its operation and its
\* validation on the fetched workflow, and has written nothing yet
SingleOperationRan(t) ==
    /\ tool = "batch_operations"
    /\ pc \in {"push", "compensate"}
    /\ writes = <<>>
    /\ Len(args.operations) = 1
    /\ args.operations[1].type = t

\* The batch and the standalone tool agree on original_workflow
SameAsStandalone ==
    LET s == Standalone(args.operations[1], original_workflow, nextId - 1)
    IN /\ (pc = "push") = (s.out = "push")
       /\ pc = "push" => workflow = s.wf

\* C35: a batch of a single add_node, delete_node, add_connection or
\* move_node ends as the corresponding standalone tool called with the same
\* arguments on the same workflow: both succeed or both fail, and on success
\* both push the same nodes and the same connection map.
C35_SingleOperationBatch ==
    \A t \in {"add_node", "delete_node", "add_connection", "move_node"} :
        SingleOperationRan(t) => SameAsStandalone

\* Call f returned 'failed' and call c returned 'success'; f had fetched the
\* workflow that c was to replace, so c committed its change after f took its
\* snapshot
FailedBesideCommitted(f, c) ==
    /\ f.pc = "done"
    /\ f.result.status = "failed"
    /\ f.has_original
    /\ c.pc = "done"
    /\ c.result.status = "success"
    /\ c.workflow # c.original_workflow
    /\ f.original_workflow = c.original_workflow

\* C36: a transaction that returns 'failed' never erases an update that
\* another caller committed to the same workflow id after the failed
\* transaction fetched its snapshot: after the failed call the stored
\* workflow still holds the other caller's committed change.
C36_FailureKeepsOtherCommit ==
    /\ FailedBesideCommitted(Running, peer) => remote[PrimaryId] = peer.workflow
    /\ FailedBesideCommitted(peer, Running) => remote[PrimaryId] = workflow


\* C37: the snapshot used for compensation is independent of the in-memory
\* edits: in every editing tool the payload of a compensating replace equals,
\* node for node and edge for edge, the workflow fetched at the start of the
\* transaction, whatever the editor did to its working copy before failing.
C37_SnapshotIndependent ==
    \A i \in DOMAIN writes :
        writes[i].role = "compensate"
        => /\ writes[i].payload.nodes = Snapshot.nodes
           /\ writes[i].payload.connections = Snapshot.connections

\* A deletion had changed nodes and connections of its working copy when its
\* replace was refused, and the compensating replace carried the fetched
\* workflow
C37_Witness ==
    /\ FinishedFailed
    /\ tool = "delete_node"
    /\ workflow.nodes # Snapshot.nodes
    /\ workflow.connections # Snapshot.connections
    /\ Len(writes) = 2
    /\ writes[1].payload = workflow
    /\ writes[2].role = "compensate"
    /\ writes[2].payload = Snapshot

\* C38: remove_connection(source, target, type) changes nothing except the
\* removed edge: every other edge of the workflow, the other edges of the
\* same source included, keeps its source, target, connection type, output
\* index and input index.
C38_RemoveConnectionFrame ==
    (Finished /\ tool = "remove_connection" /\ result.status = "success")
    => /\ workflow.nodes = original_workflow.nodes
       /\ EdgeSet(workflow.connections) =
             {e \in EdgeSet(original_workflow.connections) :
                 ~ /\ e.source = args.source_node_name
                   /\ e.target = args.target_node_name
                   /\ e.type = args.connection_type}

\* No edge of the connection map leads from a node to itself
NoSelfLoop(connections) ==
    \A e \in EdgeSet(connections) : e.source # e.target

\* The tools that move an edge or add one in place of others
Rewiring ==
    \/ tool \in {"update_connection", "insert_node_between"}
    \/ tool = "delete_node" /\ args.reconnect_connections

\* C39: from a workflow with at most one edge per (source, target) pair and no
\* edge from a node to itself, a successful update_connection, delete_node
\* with reconnection or insert_node_between produces neither a second edge
\* between the same pair nor an edge from a node to itself.
C39_RewiringKeepsEdgesSimple ==
    (/\ Finished
     /\ Rewiring
     /\ result.status = "success"
     /\ AtMostOneEdgePerPair(original_workflow.connections)
     /\ NoSelfLoop(original_workflow.connections))
    => /\ AtMostOneEdgePerPair(workflow.connections)
       /\ NoSelfLoop(workflow.connections)


\* The queue of the flow layout's loop on workflow wf, round after round: the
\* nodes without incoming edge first, then what each round appended
FlowRounds(wf) ==
    LET names == DistinctNames(wf.nodes, {})
        nameset == {names[i] : i \in DOMAIN names}
        adj == BuildAdjacency(EdgeList(wf.connections),
                              [n \in nameset |-> <<>>], [n \in nameset |-> 0])
    IN FlowLevels(SelectSeq(names, LAMBDA n : adj.incoming_count[n] = 0),
                  adj.adjacency, adj.incoming_count, <<>>)

\* Layout "flow" was called on a workflow with nodes whose connections name
\* only its nodes, so that the call reached the loop
FlowLoopRan ==
    /\ LaidOut("flow")
    /\ original_workflow.nodes # <<>>
    /\ ReferencesResolve(original_workflow)

\* C40: the level-assignment loop of layout "flow" ends on every workflow,
\* with or without a cycle, with or without duplicate edges: each node
\* enters the queue at most once, the loop makes at most as many rounds as
\* there are nodes, and the tool goes on to its replace.
C40_FlowLoopTerminates ==
    FlowLoopRan =>
        LET rounds == FlowRounds(original_workflow)
            queued == Flatten(rounds)
        IN /\ \A i, j \in DOMAIN queued : queued[i] = queued[j] => i = j
           /\ \A r \in DOMAIN rounds : rounds[r] # <<>>
           /\ Len(rounds) <= Len(original_workflow.nodes)
           /\ failure.kind = "None"
           /\ pc \in {"push", "done"}

\* On a workflow with a cycle the loop made a single round: A was queued, the
\* nodes N, B and D never were
C40_Witness ==
    /\ FlowLoopRan
    /\ Finished
    /\ result.status = "success"
    /\ original_workflow = WLoop
    /\ FlowRounds(original_workflow) = << <<"A">> >>

=============================================================================
